---- MODULE Spec2Model ----
(***************************************************************************)
(* Model of the codebase analyzer pipeline: the Java parser's business-    *)
(* logic filter, the component classifier, the statistics and complexity   *)
(* aggregators, the key-method extractor and the aspect identifier, driven *)
(* in the order of CodebaseAnalyzer.run.  Python str values are TLA+       *)
(* strings (TLC evaluates Len, \o and SubSeq on them); float values are    *)
(* exact rationals [num, den] with den > 0.                                *)
(***************************************************************************)
EXTENDS Integers, Sequences, FiniteSets, TLC

VARIABLES
    pc,                 \* position of CodebaseAnalyzer.run
    sources,            \* the source files found on disk (input of the run)
    llm_analyzer,       \* TRUE iff the analyzers were built with an LLM analyzer
    project_info,       \* CodebaseAnalyzer.project_info
    files,              \* List[FileInfo] returned by _discover_and_parse_files
    statistics,         \* result of StatisticsAnalyzer.calculate
    key_components,     \* result of ComponentAnalyzer.identify
    component_type_map, \* MethodExtractor.extract: class name -> role
    pending,            \* MethodExtractor.extract: methods still to describe
    key_methods,        \* MethodExtractor.extract: summaries emitted so far
    emitted,            \* for each summary: the method it was made from and the reply
    complexity_summary, \* result of ComplexityAnalyzer.analyze
    noteworthy_aspects, \* result of AspectAnalyzer.identify
    overview,           \* result of _analyze_overview
    recommendations,    \* result of _generate_recommendations
    analysis,           \* the CodebaseAnalysis built in step 9
    llm_log,            \* the LLMAnalyzer._query_llm calls of the run, in order
    last_reply,         \* what self.llm.invoke did in the step just executed (steps 2-7)
    report,             \* what OutputFormatter.save wrote
    saved,              \* number of OutputFormatter.save calls
    stopped_at,         \* the step at which the process exited
    LANGUAGE_PATTERNS,  \* config.LANGUAGE_PATTERNS, the class attribute of the process
    file_patterns       \* what the last get_file_patterns call returned

vars == <<pc, sources, llm_analyzer, project_info, files, statistics,
          key_components, component_type_map, pending, key_methods,
          emitted, complexity_summary, noteworthy_aspects, overview,
          recommendations, analysis, llm_log, last_reply, report, saved,
          stopped_at, LANGUAGE_PATTERNS, file_patterns>>

\* Bound: number of source files of one run.
MaxFiles == 2

\* Python None where a str is expected.
None == "<None>"

(***************************************************************************)
(* str helpers                                                             *)
(***************************************************************************)

\* s[i] (1-based)
CharAt(s, i) == SubSeq(s, i, i)

\* sub in s
Contains(s, sub) ==
    \E i \in 1..(Len(s) - Len(sub) + 1) : SubSeq(s, i, i + Len(sub) - 1) = sub

\* s.startswith(p)
StartsWith(s, p) == Len(s) >= Len(p) /\ SubSeq(s, 1, Len(p)) = p

UpperCase == "ABCDEFGHIJKLMNOPQRSTUVWXYZ"
LowerCase == "abcdefghijklmnopqrstuvwxyz"

LowerChar(c) ==
    IF \E i \in 1..26 : CharAt(UpperCase, i) = c
    THEN CharAt(LowerCase, CHOOSE i \in 1..26 : CharAt(UpperCase, i) = c)
    ELSE c

RECURSIVE Lower(_)
\* s.lower()
Lower(s) == IF Len(s) = 0 THEN "" ELSE LowerChar(CharAt(s, 1)) \o Lower(Tail(s))

RECURSIVE LStrip(_, _)
LStrip(s, chars) ==
    IF Len(s) > 0 /\ Contains(chars, CharAt(s, 1)) THEN LStrip(Tail(s), chars) ELSE s

RECURSIVE RStrip(_, _)
RStrip(s, chars) ==
    IF Len(s) > 0 /\ Contains(chars, CharAt(s, Len(s)))
    THEN RStrip(SubSeq(s, 1, Len(s) - 1), chars)
    ELSE s

\* s.strip(chars)
StripChars(s, chars) == RStrip(LStrip(s, chars), chars)

Whitespace == " \n\t\r"

\* s.strip()
Strip(s) == StripChars(s, Whitespace)

RECURSIVE SplitFrom(_, _, _)
SplitFrom(s, sep, cur) ==
    IF Len(s) = 0 THEN <<cur>>
    ELSE IF CharAt(s, 1) = sep THEN <<cur>> \o SplitFrom(Tail(s), sep, "")
    ELSE SplitFrom(Tail(s), sep, cur \o CharAt(s, 1))

\* s.split(sep) for a one-character separator
Split(s, sep) == SplitFrom(s, sep, "")

RECURSIVE Join(_, _)
\* sep.join(parts)
Join(parts, sep) ==
    IF Len(parts) = 0 THEN ""
    ELSE IF Len(parts) = 1 THEN parts[1]
    ELSE parts[1] \o sep \o Join(Tail(parts), sep)

\* x in list
InList(x, list) == \E i \in 1..Len(list) : list[i] = x

RECURSIVE SumSeq(_)
SumSeq(s) == IF Len(s) = 0 THEN 0 ELSE s[1] + SumSeq(Tail(s))

(***************************************************************************)
(* JavaCodeParser                                                          *)
(***************************************************************************)

utility_methods == <<"equals", "hashCode", "toString", "clone", "finalize">>

business_annotations ==
    <<"PostMapping", "GetMapping", "PutMapping", "DeleteMapping",
      "RequestMapping", "Service", "Transactional", "Async">>

business_keywords ==
    <<"create", "update", "delete", "save", "find", "search",
      "process", "calculate", "validate", "authenticate",
      "authorize", "send", "receive", "fetch", "load", "rent">>

\* Variant that lets the annotation and keyword rules decide before the accessor rules.
IsBusinessLogicInclusionFirst(name, annotations, param_count) ==
    IF (\E i \in 1..Len(annotations) : InList(annotations[i], business_annotations))
       \/ (\E k \in 1..Len(business_keywords) : Contains(Lower(name), business_keywords[k]))
    THEN ~InList(name, utility_methods)
    ELSE FALSE

\* Variant that looks for the keywords in the name as written, not lower-cased.
IsBusinessLogicCaseSensitive(name, annotations, param_count) ==
    IF StartsWith(name, "get") /\ param_count = 0 THEN FALSE
    ELSE IF StartsWith(name, "set") /\ param_count = 1 THEN FALSE
    ELSE IF StartsWith(name, "is") /\ param_count = 0 THEN FALSE
    ELSE IF InList(name, utility_methods) THEN FALSE
    ELSE IF \E i \in 1..Len(annotations) : InList(annotations[i], business_annotations)
         THEN TRUE
    ELSE \E k \in 1..Len(business_keywords) : Contains(name, business_keywords[k])

\* _is_business_logic_method(name, annotations, param_count)
IsBusinessLogicMethod(name, annotations, param_count) ==
    IF StartsWith(name, "get") /\ param_count = 0 THEN FALSE
    ELSE IF StartsWith(name, "set") /\ param_count = 1 THEN FALSE
    ELSE IF StartsWith(name, "is") /\ param_count = 0 THEN FALSE
    ELSE IF InList(name, utility_methods) THEN FALSE
    ELSE IF \E i \in 1..Len(annotations) : InList(annotations[i], business_annotations)
         THEN TRUE
    ELSE \E k \in 1..Len(business_keywords) : Contains(Lower(name), business_keywords[k])


(***************************************************************************)
(* float values: exact rationals in lowest terms                           *)
(***************************************************************************)

RECURSIVE GCD(_, _)
GCD(a, b) == IF b = 0 THEN a ELSE GCD(b, a % b)

Rat(n, d) == LET g == GCD(n, d) IN [num |-> n \div g, den |-> d \div g]

RatAdd(a, b) == Rat(a.num * b.den + b.num * a.den, a.den * b.den)

\* a < b
RatLess(a, b) == a.num * b.den < b.num * a.den

\* f"{r:.1f}": the nearest tenth, an exact tie going to the even digit (as Python
\* does for a tie that a binary float holds exactly, i.e. a multiple of 1/4)
FormatOneDecimal(r) ==
    LET q == (10 * r.num) \div r.den
        rem == (10 * r.num) % r.den
        t == IF 2 * rem > r.den THEN q + 1
             ELSE IF 2 * rem = r.den THEN q + (q % 2)
             ELSE q
    IN  ToString(t \div 10) \o "." \o ToString(t % 10)

\* Optional[float]
NoFloat == [present |-> FALSE, num |-> 0, den |-> 1]
SomeFloat(r) == [present |-> TRUE, num |-> r.num, den |-> r.den]

\* _calculate_complexity(file_path)["average_complexity"]
CalculateComplexity(src) ==
    IF ~src.lizard_ok THEN Rat(0, 1)
    ELSE IF Len(src.functions) = 0 THEN Rat(0, 1)
    ELSE Rat(SumSeq(src.functions), Len(src.functions))

\* _parse_method(node)
ParseMethod(node) ==
    LET params_str == Join([i \in 1..Len(node.parameters) |->
                               node.parameters[i].type \o " " \o node.parameters[i].name], ", ")
        return_type == IF node.return_type # None THEN node.return_type ELSE "void"
    IN  [name |-> node.name,
         signature |-> return_type \o " " \o node.name \o "(" \o params_str \o ")",
         description |-> None,
         return_type |-> return_type,
         annotations |-> node.annotations,
         is_business_logic |->
             IsBusinessLogicMethod(node.name, node.annotations, Len(node.parameters))]

\* _parse_class(node, package, content)
ParseClass(node, package) ==
    [name |-> node.name,
     package |-> package,
     annotations |-> node.annotations,
     methods |-> [i \in 1..Len(node.methods) |-> ParseMethod(node.methods[i])]]

\* _create_basic_file_info(file_path, content)
CreateBasicFileInfo(src) ==
    [file_path |-> src.file_path, file_type |-> "java", package |-> None,
     classes |-> <<>>, total_lines |-> src.total_lines,
     code_lines |-> src.code_lines, complexity |-> NoFloat]

\* parse_file(file_path), for a file that can be read
ParseFile(src) ==
    IF ~src.parses THEN CreateBasicFileInfo(src)
    ELSE [file_path |-> src.file_path, file_type |-> "java", package |-> src.package,
          classes |-> [i \in 1..Len(src.classes) |-> ParseClass(src.classes[i], src.package)],
          total_lines |-> src.total_lines,
          code_lines |-> src.code_lines,
          complexity |-> SomeFloat(CalculateComplexity(src))]

RECURSIVE DiscoverAndParseFiles(_)
\* _discover_and_parse_files(): a file parse_file returns None for is left out
DiscoverAndParseFiles(srcs) ==
    IF Len(srcs) = 0 THEN <<>>
    ELSE (IF srcs[1].readable THEN <<ParseFile(srcs[1])>> ELSE <<>>)
         \o DiscoverAndParseFiles(Tail(srcs))


(***************************************************************************)
(* ComponentAnalyzer                                                       *)
(***************************************************************************)

Roles == <<"controllers", "services", "repositories", "entities", "configurations">>

\* A chain that tests the entity predicate before the other four.
RoleOfEntitiesFirst(file, cls) ==
    IF InList("Entity", cls.annotations)
       \/ (file.package # None /\ file.package # "" /\ Contains(file.package, "entities"))
        THEN "entities"
    ELSE IF Contains(cls.name, "Controller") \/ InList("Controller", cls.annotations)
        THEN "controllers"
    ELSE IF Contains(cls.name, "Service") \/ InList("Service", cls.annotations)
        THEN "services"
    ELSE IF Contains(cls.name, "Repository") \/ InList("Repository", cls.annotations)
        THEN "repositories"
    ELSE IF InList("Configuration", cls.annotations) \/ Contains(cls.name, "Config")
        THEN "configurations"
    ELSE None

\* The role the if/elif chain of identify gives one class, or None.
RoleOf(file, cls) ==
    IF Contains(cls.name, "Controller") \/ InList("Controller", cls.annotations)
        THEN "controllers"
    ELSE IF Contains(cls.name, "Service") \/ InList("Service", cls.annotations)
        THEN "services"
    ELSE IF Contains(cls.name, "Repository") \/ InList("Repository", cls.annotations)
        THEN "repositories"
    ELSE IF InList("Entity", cls.annotations)
            \/ (file.package # None /\ file.package # "" /\ Contains(file.package, "entities"))
        THEN "entities"
    ELSE IF InList("Configuration", cls.annotations) \/ Contains(cls.name, "Config")
        THEN "configurations"
    ELSE None

RECURSIVE ClassPositions(_, _, _)
\* for file in files: for cls in file.classes  (as <<file index, class index>>)
ClassPositions(fs, f, c) ==
    IF f > Len(fs) THEN <<>>
    ELSE IF c > Len(fs[f].classes) THEN ClassPositions(fs, f + 1, 1)
    ELSE <<(<<f, c>>)>> \o ClassPositions(fs, f, c + 1)

RECURSIVE IdentifyFromEveryMatch(_, _, _)
\* A classifier that lists a class under its role and, when it carries the Entity
\* annotation, under entities as well
IdentifyFromEveryMatch(fs, todo, components) ==
    IF Len(todo) = 0 THEN components
    ELSE LET file == fs[todo[1][1]]
             cls == file.classes[todo[1][2]]
             role == RoleOf(file, cls)
             first == IF role = None THEN components
                      ELSE [components EXCEPT ![role] = Append(@, cls.name)]
         IN  IdentifyFromEveryMatch(fs, Tail(todo),
                 IF role \notin {None, "entities"} /\ InList("Entity", cls.annotations)
                 THEN [first EXCEPT !.entities = Append(@, cls.name)]
                 ELSE first)

RECURSIVE IdentifyFrom(_, _, _)
IdentifyFrom(fs, todo, components) ==
    IF Len(todo) = 0 THEN components
    ELSE LET file == fs[todo[1][1]]
             cls == file.classes[todo[1][2]]
             role == RoleOf(file, cls)
         IN  IdentifyFrom(fs, Tail(todo),
                 IF role = None THEN components
                 ELSE [components EXCEPT ![role] = Append(@, cls.name)])

\* ComponentAnalyzer.identify(files)
Identify(fs) ==
    IdentifyFrom(fs, ClassPositions(fs, 1, 1),
                 [controllers |-> <<>>, services |-> <<>>, repositories |-> <<>>,
                  entities |-> <<>>, configurations |-> <<>>])

(***************************************************************************)
(* StatisticsAnalyzer                                                      *)
(***************************************************************************)

\* The methods of a class counted whatever their flag
AnyMethodCount(cls) ==
    Len(cls.methods)

\* sum(1 for m in c.methods if m.is_business_logic)
BusinessMethodCount(cls) ==
    Cardinality({m \in 1..Len(cls.methods) : cls.methods[m].is_business_logic})

\* calculate with the averages rounded to the nearest integer instead of floored
CalculateRoundedAverages(fs) ==
    LET total_files == Len(fs)
        total_lines == SumSeq([i \in 1..Len(fs) |-> fs[i].total_lines])
        total_code_lines == SumSeq([i \in 1..Len(fs) |-> fs[i].code_lines])
        total_classes == SumSeq([i \in 1..Len(fs) |-> Len(fs[i].classes)])
        positions == ClassPositions(fs, 1, 1)
        total_methods ==
            SumSeq([i \in 1..Len(positions) |->
                       BusinessMethodCount(fs[positions[i][1]].classes[positions[i][2]])])
        types == {fs[i].file_type : i \in 1..Len(fs)}
    IN  [total_files |-> total_files,
         total_lines |-> total_lines,
         total_code_lines |-> total_code_lines,
         total_classes |-> total_classes,
         total_methods |-> total_methods,
         file_types |-> [t \in types |-> Cardinality({i \in 1..Len(fs) : fs[i].file_type = t})],
         average_file_size |->
             IF total_files > 0
             THEN (2 * total_lines + total_files) \div (2 * total_files) ELSE 0,
         average_methods_per_class |->
             IF total_classes > 0
             THEN (2 * total_methods + total_classes) \div (2 * total_classes) ELSE 0]

\* StatisticsAnalyzer.calculate(files)
Calculate(fs) ==
    LET total_files == Len(fs)
        total_lines == SumSeq([i \in 1..Len(fs) |-> fs[i].total_lines])
        total_code_lines == SumSeq([i \in 1..Len(fs) |-> fs[i].code_lines])
        total_classes == SumSeq([i \in 1..Len(fs) |-> Len(fs[i].classes)])
        positions == ClassPositions(fs, 1, 1)
        total_methods ==
            SumSeq([i \in 1..Len(positions) |->
                       BusinessMethodCount(fs[positions[i][1]].classes[positions[i][2]])])
        types == {fs[i].file_type : i \in 1..Len(fs)}
    IN  [total_files |-> total_files,
         total_lines |-> total_lines,
         total_code_lines |-> total_code_lines,
         total_classes |-> total_classes,
         total_methods |-> total_methods,
         file_types |-> [t \in types |-> Cardinality({i \in 1..Len(fs) : fs[i].file_type = t})],
         average_file_size |-> IF total_files > 0 THEN total_lines \div total_files ELSE 0,
         average_methods_per_class |->
             IF total_classes > 0 THEN total_methods \div total_classes ELSE 0]


(***************************************************************************)
(* LLMAnalyzer                                                             *)
(***************************************************************************)

\* What self.llm.invoke does: it returns a message whose content is a str, returns
\* one whose content is not a str (a list of content blocks), or raises.
TextReply(t) == [kind |-> "text", content |-> t]
RaiseReply == [kind |-> "raise", content |-> ""]
NonStrReply == [kind |-> "nonstr", content |-> ""]

\* _query_llm(system_prompt, user_prompt): the value returned
QueryLLM(reply) ==
    IF reply.kind = "raise" THEN [is_str |-> TRUE, text |-> "{}"]
    ELSE IF reply.kind = "text" THEN [is_str |-> TRUE, text |-> reply.content]
    ELSE [is_str |-> FALSE, text |-> ""]

\* The parameters _query_llm declares besides self
QueryLLMParameters == <<"system_prompt", "user_prompt">>

\* Whether a call of _query_llm with these keyword arguments binds: with a keyword
\* that is not a parameter the call raises TypeError before the method body runs
KeywordsAccepted(keywords) ==
    \A i \in 1..Len(keywords) :
        \E j \in 1..Len(QueryLLMParameters) : QueryLLMParameters[j] = keywords[i]

\* generate_method_description(method_signature, class_name, annotations)
GenerateMethodDescription(reply) ==
    LET response == QueryLLM(reply)
    IN  IF ~response.is_str
        THEN [raised |-> TRUE, value |-> None]       \* AttributeError on .strip()
        ELSE [raised |-> FALSE,
              value |-> StripChars(StripChars(Strip(response.text), "\""), "'")]

(***************************************************************************)
(* Project context                                                         *)
(***************************************************************************)

NoProjectInfo == [present |-> FALSE, language |-> "", frameworks |-> <<>>]

\* True when project_info.get('frameworks', ['Unknown'])[0] raises IndexError
ContextRaises(info) == info.present /\ Len(info.frameworks) = 0


(***************************************************************************)
(* Narrative replies of a run                                              *)
(***************************************************************************)

\* detect_project_info() for a project with and without a detected framework, and the
\* default project_info=None of the analyzers
ProjectInfos ==
    {NoProjectInfo,
     [present |-> TRUE, language |-> "java", frameworks |-> <<>>],
     [present |-> TRUE, language |-> "java", frameworks |-> <<"Spring Boot">>]}

DescriptionReplies ==
    {TextReply(" \"Creates a new order.\"\n"), RaiseReply, NonStrReply}

InterpretationReplies ==
    {TextReply(" Complexity is acceptable.\n"), TextReply(""), TextReply(" \n"),
     RaiseReply, NonStrReply}

AspectReplies ==
    {TextReply("# A\n- Layered design, thin controllers\n- ok\n\n-  Services own persistence calls \n"),
     TextReply("## S\n- looks fine\n- 12345678901234567890"),
     TextReply(""), RaiseReply, NonStrReply}

OverviewReplies ==
    {TextReply("{\"project_name\": \"Shop\", \"key_technologies\": [\"Java\"]}"),
     TextReply("{\"project_name\": 7}"),
     TextReply("project_name: Shop\nkey_technologies: Java, Spring"),
     TextReply("{oops}"),
     RaiseReply}

RecommendationReplies ==
    {TextReply("Here:\n[\"Add tests\", \"Split OrderService\"]"),
     TextReply("- Add tests\n- Split OrderService\n"),
     TextReply("[1, 2]"),
     TextReply("[\"Add tests\", oops]"),
     RaiseReply, NonStrReply}


(***************************************************************************)
(* ComplexityAnalyzer                                                      *)
(***************************************************************************)

\* Python truth value of an Optional[float]: None and 0 are both false
Truthy(x) == x.present /\ x.num # 0

RECURSIVE Complexities(_)
\* [f.complexity for f in files if f.complexity]
Complexities(fs) ==
    IF Len(fs) = 0 THEN <<>>
    ELSE (IF Truthy(fs[1].complexity)
          THEN <<Rat(fs[1].complexity.num, fs[1].complexity.den)>> ELSE <<>>)
         \o Complexities(Tail(fs))

RECURSIVE RatSum(_)
RatSum(xs) == IF Len(xs) = 0 THEN Rat(0, 1) ELSE RatAdd(xs[1], RatSum(Tail(xs)))

RECURSIVE RatMax(_)
RatMax(xs) ==
    IF Len(xs) = 1 THEN xs[1]
    ELSE LET m == RatMax(Tail(xs)) IN IF RatLess(xs[1], m) THEN m ELSE xs[1]

RECURSIVE RatMin(_)
RatMin(xs) ==
    IF Len(xs) = 1 THEN xs[1]
    ELSE LET m == RatMin(Tail(xs)) IN IF RatLess(m, xs[1]) THEN m ELSE xs[1]

HIGH_COMPLEXITY == 10

RECURSIVE HighComplexityFilesInclusive(_)
\* The paths of the files whose complexity is 10 or more
HighComplexityFilesInclusive(fs) ==
    IF Len(fs) = 0 THEN <<>>
    ELSE (IF Truthy(fs[1].complexity)
             /\ ~RatLess(fs[1].complexity, Rat(HIGH_COMPLEXITY, 1))
          THEN <<fs[1].file_path>> ELSE <<>>)
         \o HighComplexityFilesInclusive(Tail(fs))

RECURSIVE HighComplexityFiles(_)
\* [f.file_path for f in files if f.complexity and f.complexity > 10]
HighComplexityFiles(fs) ==
    IF Len(fs) = 0 THEN <<>>
    ELSE (IF Truthy(fs[1].complexity)
             /\ RatLess(Rat(HIGH_COMPLEXITY, 1), fs[1].complexity)
          THEN <<fs[1].file_path>> ELSE <<>>)
         \o HighComplexityFiles(Tail(fs))

\* the metrics dict analyze builds from a non-empty list of complexities
Metrics(fs) ==
    LET complexities == Complexities(fs)
        total == RatSum(complexities)
    IN  [average_complexity |-> Rat(total.num, total.den * Len(complexities)),
         max_complexity |-> RatMax(complexities),
         min_complexity |-> RatMin(complexities),
         high_complexity_files |-> HighComplexityFiles(fs)]

\* An interpretation request whose failure leaves the text '{}' as the interpretation
GetLLMInterpretationBraces(metrics, info, reply) == [value |-> "{}", queried |-> FALSE]

\* The keyword arguments of the _query_llm call of _get_llm_interpretation
InterpretationKeywords == <<"system_prompt", "user_prompt", "max_tokens">>

\* _get_llm_interpretation(metrics, project_info): the value returned (None when the
\* try block raises: while the prompt is built, or at the _query_llm call when a
\* keyword does not bind) and whether the body of _query_llm ran
GetLLMInterpretation(metrics, info, reply) ==
    IF ContextRaises(info) \/ ~KeywordsAccepted(InterpretationKeywords)
    THEN [value |-> None, queried |-> FALSE]
    ELSE LET response == QueryLLM(reply)
         IN  IF ~response.is_str THEN [value |-> None, queried |-> TRUE]
             ELSE IF response.text = "" THEN [value |-> None, queried |-> TRUE]
             ELSE [value |-> Strip(response.text), queried |-> TRUE]

NoComplexityData == [message |-> "No complexity data available"]

\* Variant of analyze that reports zeros, and asks for an interpretation, without data.
AnalyzeZerosWithoutData(fs, info, has_llm, reply) ==
    LET metrics == IF Len(Complexities(fs)) = 0
                   THEN [average_complexity |-> Rat(0, 1), max_complexity |-> Rat(0, 1),
                         min_complexity |-> Rat(0, 1), high_complexity_files |-> <<>>]
                   ELSE Metrics(fs)
        interpretation == GetLLMInterpretation(metrics, info, reply)
    IN  IF ~has_llm THEN [summary |-> metrics, queried |-> FALSE]
        ELSE IF interpretation.value # None /\ interpretation.value # ""
             THEN [summary |-> [average_complexity |-> metrics.average_complexity,
                                max_complexity |-> metrics.max_complexity,
                                min_complexity |-> metrics.min_complexity,
                                high_complexity_files |-> metrics.high_complexity_files,
                                interpretation |-> interpretation.value],
                   queried |-> interpretation.queried]
        ELSE [summary |-> metrics, queried |-> interpretation.queried]

\* ComplexityAnalyzer.analyze(files, project_info): the dict returned and whether the
\* narrative service was queried
Analyze(fs, info, has_llm, reply) ==
    IF Len(Complexities(fs)) = 0
    THEN [summary |-> NoComplexityData, queried |-> FALSE]
    ELSE LET metrics == Metrics(fs)
             interpretation == GetLLMInterpretation(metrics, info, reply)
         IN  IF ~has_llm THEN [summary |-> metrics, queried |-> FALSE]
             ELSE IF interpretation.value # None /\ interpretation.value # ""
                  THEN [summary |-> [average_complexity |-> metrics.average_complexity,
                                     max_complexity |-> metrics.max_complexity,
                                     min_complexity |-> metrics.min_complexity,
                                     high_complexity_files |-> metrics.high_complexity_files,
                                     interpretation |-> interpretation.value],
                        queried |-> interpretation.queried]
             ELSE [summary |-> metrics, queried |-> interpretation.queried]


(***************************************************************************)
(* MethodExtractor                                                         *)
(***************************************************************************)

\* dict assignment d[key] = value
DictSet(d, key, value) ==
    [k \in DOMAIN d \cup {key} |-> IF k = key THEN value ELSE d[k]]

RECURSIVE MapNames(_, _, _)
MapNames(map, names, comp_type) ==
    IF Len(names) = 0 THEN map
    ELSE MapNames(DictSet(map, names[1], comp_type), Tail(names), comp_type)

RECURSIVE MapRoles(_, _, _)
MapRoles(map, components, r) ==
    IF r > Len(Roles) THEN map
    ELSE MapRoles(MapNames(map, components[Roles[r]], Roles[r]), components, r + 1)

\* component_type_map of extract: for comp_type, class_names in key_components.items()
ComponentTypeMap(components) == MapRoles(<<>>, components, 1)

\* component_type_map.get(cls.name)
MapGet(map, name) == IF name \in DOMAIN map THEN map[name] ELSE None

RECURSIVE KeyPositionsLastFirst(_, _, _, _, _)
\* The positions extract reaches, visited from the last method back to the first
KeyPositionsLastFirst(fs, map, f, c, m) ==
    IF f > Len(fs) THEN <<>>
    ELSE IF c > Len(fs[f].classes) THEN KeyPositionsLastFirst(fs, map, f + 1, 1, 1)
    ELSE IF MapGet(map, fs[f].classes[c].name) \notin {"controllers", "services"}
         THEN KeyPositionsLastFirst(fs, map, f, c + 1, 1)
    ELSE IF m > Len(fs[f].classes[c].methods)
         THEN KeyPositionsLastFirst(fs, map, f, c + 1, 1)
    ELSE KeyPositionsLastFirst(fs, map, f, c, m + 1)
         \o (IF fs[f].classes[c].methods[m].is_business_logic THEN <<(<<f, c, m>>)>> ELSE <<>>)

RECURSIVE KeyPositions(_, _, _, _, _)
\* The <<file, class, method>> positions for which the loops of extract reach the
\* description request, in loop order.
KeyPositions(fs, map, f, c, m) ==
    IF f > Len(fs) THEN <<>>
    ELSE IF c > Len(fs[f].classes) THEN KeyPositions(fs, map, f + 1, 1, 1)
    ELSE IF MapGet(map, fs[f].classes[c].name) \notin {"controllers", "services"}
         THEN KeyPositions(fs, map, f, c + 1, 1)
    ELSE IF m > Len(fs[f].classes[c].methods) THEN KeyPositions(fs, map, f, c + 1, 1)
    ELSE (IF fs[f].classes[c].methods[m].is_business_logic THEN <<(<<f, c, m>>)>> ELSE <<>>)
         \o KeyPositions(fs, map, f, c, m + 1)

\* generate_method_description for every reply of a run, evaluated once
MethodDescriptions ==
    [reply \in DescriptionReplies |-> GenerateMethodDescription(reply)]

\* The description extract records for one method: the try/except around
\* generate_method_description (without an LLM analyzer the call itself raises)
DescriptionFor(has_llm, reply) ==
    IF ~has_llm THEN None
    ELSE LET r == MethodDescriptions[reply]
         IN  IF r.raised THEN None ELSE r.value

\* KeyMethodSummary(...) appended by extract
Summary(cls, method, description, component_type) ==
    [class_name |-> cls.name,
     method_name |-> method.name,
     signature |-> method.signature,
     description |-> description,
     annotations |-> method.annotations,
     component_type |-> component_type]

(***************************************************************************)
(* AspectAnalyzer                                                          *)
(***************************************************************************)

MIN_ASPECT_LENGTH == 20

RECURSIVE ParseLines(_)
\* [line.strip('- ').strip() for line in lines
\*  if line.strip() and not line.strip().startswith('#')]
ParseLines(lines) ==
    IF Len(lines) = 0 THEN <<>>
    ELSE (IF Strip(lines[1]) # "" /\ ~StartsWith(Strip(lines[1]), "#")
          THEN <<Strip(StripChars(lines[1], "- "))>> ELSE <<>>)
         \o ParseLines(Tail(lines))

RECURSIVE LongEnough(_)
\* [a for a in aspects if len(a) > 20]
LongEnough(aspects) ==
    IF Len(aspects) = 0 THEN <<>>
    ELSE (IF Len(aspects[1]) > MIN_ASPECT_LENGTH THEN <<aspects[1]>> ELSE <<>>)
         \o LongEnough(Tail(aspects))

\* The list _get_llm_insights parses from a str response
ParseAspects(text) == LongEnough(ParseLines(Split(Strip(text), "\n")))

NoList == [present |-> FALSE, list |-> <<>>]
SomeList(l) == [present |-> TRUE, list |-> l]

\* The keyword arguments of the _query_llm call of _get_llm_insights
InsightsKeywords == <<"system_prompt", "user_prompt", "max_tokens">>

\* _get_llm_insights(statistics, complexity_summary, key_components, project_info):
\* the Optional[List[str]] returned (None when the try block raises: while the prompt
\* is built, or at the _query_llm call when a keyword does not bind) and whether the
\* body of _query_llm ran
GetLLMInsights(info, reply) ==
    IF ContextRaises(info) \/ ~KeywordsAccepted(InsightsKeywords)
    THEN [value |-> NoList, queried |-> FALSE]
    ELSE LET response == QueryLLM(reply)
         IN  IF ~response.is_str THEN [value |-> NoList, queried |-> TRUE]
             ELSE IF response.text = "" THEN [value |-> NoList, queried |-> TRUE]
             ELSE [value |-> SomeList(ParseAspects(response.text)), queried |-> TRUE]

\* A rule-based analysis whose text depends on how many observations the run holds
RuleBasedAnalysisPerCall(stats, complexity, components) ==
    <<"Observation " \o ToString(Len(noteworthy_aspects) + 1) \o ": "
      \o ToString(stats.total_lines) \o " lines in "
      \o ToString(Len(components.controllers)) \o " controllers">>

\* A rule-based analysis that reports the methods per class before the size
RuleBasedAnalysisSizeLast(stats, complexity, components) ==
    LET architecture ==
            IF Len(components.controllers) > 0 /\ Len(components.services) > 0
            THEN <<"Well-structured MVC architecture with "
                   \o ToString(Len(components.controllers)) \o " controllers and "
                   \o ToString(Len(components.services)) \o " services">>
            ELSE <<>>
        entities ==
            IF Len(components.entities) > 0
            THEN <<"Data model contains " \o ToString(Len(components.entities))
                   \o " entity classes">>
            ELSE <<>>
        avg_note ==
            IF "average_complexity" \in DOMAIN complexity
            THEN LET avg == complexity.average_complexity
                 IN  IF RatLess(avg, Rat(2, 1))
                     THEN <<"Low code complexity (avg: " \o FormatOneDecimal(avg)
                            \o ") indicates maintainable code">>
                     ELSE IF RatLess(Rat(5, 1), avg)
                     THEN <<"High code complexity (avg: " \o FormatOneDecimal(avg)
                            \o ") may require refactoring">>
                     ELSE <<>>
            ELSE <<>>
        high ==
            IF "high_complexity_files" \in DOMAIN complexity
               /\ Len(complexity.high_complexity_files) > 0
            THEN <<ToString(Len(complexity.high_complexity_files))
                   \o " files with high complexity (>10) need attention">>
            ELSE <<>>
        lines == stats.total_lines
        size ==
            IF lines < 3000
            THEN <<"Compact codebase (" \o ToString(lines)
                   \o " lines) - easy to navigate and understand">>
            ELSE IF lines > 10000
            THEN <<"Large codebase (" \o ToString(lines)
                   \o " lines) - consider modularization">>
            ELSE <<>>
        avg_methods ==
            IF stats.total_classes > 0
            THEN Rat(stats.total_methods, stats.total_classes) ELSE Rat(0, 1)
        responsibility ==
            IF RatLess(avg_methods, Rat(3, 1))
            THEN <<"Classes have few business methods (avg: "
                   \o FormatOneDecimal(avg_methods)
                   \o ") - likely following single responsibility principle">>
            ELSE <<>>
        security ==
            IF InList("WebSecurityConfig", components.configurations)
            THEN <<"Spring Security configured for authentication and authorization">>
            ELSE <<>>
    IN  architecture \o entities \o avg_note \o high \o responsibility \o size \o security

\* _rule_based_analysis(statistics, complexity_summary, key_components)
RuleBasedAnalysis(stats, complexity, components) ==
    LET architecture ==
            IF Len(components.controllers) > 0 /\ Len(components.services) > 0
            THEN <<"Well-structured MVC architecture with "
                   \o ToString(Len(components.controllers)) \o " controllers and "
                   \o ToString(Len(components.services)) \o " services">>
            ELSE <<>>
        entities ==
            IF Len(components.entities) > 0
            THEN <<"Data model contains " \o ToString(Len(components.entities))
                   \o " entity classes">>
            ELSE <<>>
        avg_note ==
            IF "average_complexity" \in DOMAIN complexity
            THEN LET avg == complexity.average_complexity
                 IN  IF RatLess(avg, Rat(2, 1))
                     THEN <<"Low code complexity (avg: " \o FormatOneDecimal(avg)
                            \o ") indicates maintainable code">>
                     ELSE IF RatLess(Rat(5, 1), avg)
                     THEN <<"High code complexity (avg: " \o FormatOneDecimal(avg)
                            \o ") may require refactoring">>
                     ELSE <<>>
            ELSE <<>>
        high ==
            IF "high_complexity_files" \in DOMAIN complexity
               /\ Len(complexity.high_complexity_files) > 0
            THEN <<ToString(Len(complexity.high_complexity_files))
                   \o " files with high complexity (>10) need attention">>
            ELSE <<>>
        lines == stats.total_lines
        size ==
            IF lines < 3000
            THEN <<"Compact codebase (" \o ToString(lines)
                   \o " lines) - easy to navigate and understand">>
            ELSE IF lines > 10000
            THEN <<"Large codebase (" \o ToString(lines)
                   \o " lines) - consider modularization">>
            ELSE <<>>
        avg_methods ==
            IF stats.total_classes > 0
            THEN Rat(stats.total_methods, stats.total_classes) ELSE Rat(0, 1)
        responsibility ==
            IF RatLess(avg_methods, Rat(3, 1))
            THEN <<"Classes have few business methods (avg: "
                   \o FormatOneDecimal(avg_methods)
                   \o ") - likely following single responsibility principle">>
            ELSE <<>>
        security ==
            IF InList("WebSecurityConfig", components.configurations)
            THEN <<"Spring Security configured for authentication and authorization">>
            ELSE <<>>
    IN  architecture \o entities \o avg_note \o high \o size \o responsibility \o security

\* GetLLMInsights for every project context and reply of a run, evaluated once
LLMInsights ==
    [info \in ProjectInfos, reply \in AspectReplies |-> GetLLMInsights(info, reply)]

\* Variant of identify that returns what the narrative path gave and has no fallback.
IdentifyAspectsNoFallback(stats, complexity, components, info, has_llm, reply) ==
    LET llm_aspects == LLMInsights[info, reply]
    IN  [aspects |-> IF has_llm /\ llm_aspects.value.present
                     THEN llm_aspects.value.list ELSE <<>>,
         raised |-> FALSE, queried |-> has_llm /\ llm_aspects.queried]

\* AspectAnalyzer.identify(statistics, complexity_summary, key_components, project_info):
\* the list returned, whether identify raised, and whether the service was queried
IdentifyAspects(stats, complexity, components, info, has_llm, reply) ==
    LET llm_aspects == LLMInsights[info, reply]
        rules == RuleBasedAnalysis(stats, complexity, components)
    IN  IF has_llm /\ llm_aspects.value.present /\ Len(llm_aspects.value.list) > 0
        THEN [aspects |-> llm_aspects.value.list, raised |-> FALSE,
              queried |-> llm_aspects.queried]
        ELSE [aspects |-> rules, raised |-> FALSE,
              queried |-> has_llm /\ llm_aspects.queried]


(***************************************************************************)
(* JSON values and json.loads                                              *)
(***************************************************************************)

\* A decoded JSON value.  t is its Python type; s the text of a str, of a number or
\* of a dict key; items the elements of a list, the key/value pairs of a dict, or the
\* one value of a pair.
JNull == [t |-> "null", s |-> "", items |-> <<>>]
JStr(s) == [t |-> "str", s |-> s, items |-> <<>>]
JNum(s) == [t |-> "int", s |-> s, items |-> <<>>]
JBool(s) == [t |-> "bool", s |-> s, items |-> <<>>]
JList(items) == [t |-> "list", s |-> "", items |-> items]
JPair(key, value) == [t |-> "pair", s |-> key, items |-> <<value>>]
JDict(pairs) == [t |-> "dict", s |-> "", items |-> pairs]

Digits == "0123456789"

\* text[i-1:].startswith(word)
HasAt(text, i, word) ==
    i + Len(word) - 1 <= Len(text) /\ SubSeq(text, i, i + Len(word) - 1) = word

RECURSIVE SkipWhitespace(_, _)
SkipWhitespace(text, i) ==
    IF i <= Len(text) /\ Contains(Whitespace, CharAt(text, i))
    THEN SkipWhitespace(text, i + 1) ELSE i

RECURSIVE ScanString(_, _)
\* Position of the quote closing a string whose first character is at i, 0 when the
\* string is not terminated or holds a control character; escape sequences are not
\* decoded (0 as well).
ScanString(text, i) ==
    IF i > Len(text) THEN 0
    ELSE IF CharAt(text, i) = "\"" THEN i
    ELSE IF Contains("\n\t\r\\", CharAt(text, i)) THEN 0
    ELSE ScanString(text, i + 1)

RECURSIVE ScanDigits(_, _)
\* Position after the digits that start at i
ScanDigits(text, i) ==
    IF i <= Len(text) /\ Contains(Digits, CharAt(text, i))
    THEN ScanDigits(text, i + 1) ELSE i

JFail == [ok |-> FALSE, value |-> JNull, next |-> 0]
JOk(value, next) == [ok |-> TRUE, value |-> value, next |-> next]

RECURSIVE ParseValue(_, _)
RECURSIVE ParseElements(_, _, _)
RECURSIVE ParseMembers(_, _, _)

\* The JSON value that starts at or after position i of text, and the position after it
ParseValue(text, i0) ==
    LET i == SkipWhitespace(text, i0)
    IN  IF i > Len(text) THEN JFail
        ELSE IF CharAt(text, i) = "\""
        THEN LET e == ScanString(text, i + 1)
             IN  IF e = 0 THEN JFail ELSE JOk(JStr(SubSeq(text, i + 1, e - 1)), e + 1)
        ELSE IF CharAt(text, i) = "["
        THEN LET j == SkipWhitespace(text, i + 1)
             IN  IF j <= Len(text) /\ CharAt(text, j) = "]"
                 THEN JOk(JList(<<>>), j + 1)
                 ELSE ParseElements(text, i + 1, <<>>)
        ELSE IF CharAt(text, i) = "{"
        THEN LET j == SkipWhitespace(text, i + 1)
             IN  IF j <= Len(text) /\ CharAt(text, j) = "}"
                 THEN JOk(JDict(<<>>), j + 1)
                 ELSE ParseMembers(text, i + 1, <<>>)
        ELSE IF Contains(Digits, CharAt(text, i))
        THEN LET e == ScanDigits(text, i) IN JOk(JNum(SubSeq(text, i, e - 1)), e)
        ELSE IF CharAt(text, i) = "-"
        THEN LET e == ScanDigits(text, i + 1)
             IN  IF e = i + 1 THEN JFail ELSE JOk(JNum(SubSeq(text, i, e - 1)), e)
        ELSE IF HasAt(text, i, "null") THEN JOk(JNull, i + 4)
        ELSE IF HasAt(text, i, "true") THEN JOk(JBool("true"), i + 4)
        ELSE IF HasAt(text, i, "false") THEN JOk(JBool("false"), i + 5)
        ELSE JFail

\* The elements of a list from position i on, after the elements acc
ParseElements(text, i, acc) ==
    LET v == ParseValue(text, i)
        j == SkipWhitespace(text, v.next)
    IN  IF ~v.ok \/ j > Len(text) THEN JFail
        ELSE IF CharAt(text, j) = "," THEN ParseElements(text, j + 1, Append(acc, v.value))
        ELSE IF CharAt(text, j) = "]" THEN JOk(JList(Append(acc, v.value)), j + 1)
        ELSE JFail

\* The members of a dict from position i on, after the pairs acc
ParseMembers(text, i, acc) ==
    LET k == ParseValue(text, i)
        c == SkipWhitespace(text, k.next)
    IN  IF ~k.ok \/ k.value.t # "str" \/ c > Len(text) \/ CharAt(text, c) # ":"
        THEN JFail
        ELSE LET v == ParseValue(text, c + 1)
                 j == SkipWhitespace(text, v.next)
             IN  IF ~v.ok \/ j > Len(text) THEN JFail
                 ELSE IF CharAt(text, j) = ","
                      THEN ParseMembers(text, j + 1, Append(acc, JPair(k.value.s, v.value)))
                 ELSE IF CharAt(text, j) = "}"
                      THEN JOk(JDict(Append(acc, JPair(k.value.s, v.value))), j + 1)
                 ELSE JFail

\* json.loads(text): the value, or raised when text is not one JSON document
JsonLoads(text) ==
    LET r == ParseValue(text, 1)
    IN  IF r.ok /\ SkipWhitespace(text, r.next) > Len(text)
        THEN [raised |-> FALSE, value |-> r.value]
        ELSE [raised |-> TRUE, value |-> JNull]

\* s.find(c) and s.rfind(c) for a one-character c: 0-based, -1 when c is not in s
Find(s, c) ==
    IF \E i \in 1..Len(s) : CharAt(s, i) = c
    THEN (CHOOSE i \in 1..Len(s) :
            CharAt(s, i) = c /\ \A j \in 1..(i - 1) : CharAt(s, j) # c) - 1
    ELSE -1

RFind(s, c) ==
    IF \E i \in 1..Len(s) : CharAt(s, i) = c
    THEN (CHOOSE i \in 1..Len(s) :
            CharAt(s, i) = c /\ \A j \in (i + 1)..Len(s) : CharAt(s, j) # c) - 1
    ELSE -1

\* d to which d[key] = value was applied
DictPut(d, key, value) ==
    JDict(SelectSeq(d.items, LAMBDA p : p.s # key) \o <<JPair(key, value)>>)

\* key in d
DictHas(d, key) == \E i \in 1..Len(d.items) : d.items[i].s = key

\* d.get(key, default); the last pair of a repeated key is the one the dict holds
DictGet(d, key, default) ==
    IF DictHas(d, key)
    THEN d.items[CHOOSE i \in 1..Len(d.items) :
                    d.items[i].s = key
                    /\ \A j \in (i + 1)..Len(d.items) : d.items[j].s # key].items[1]
    ELSE default

(***************************************************************************)
(* Project overview and recommendations                                    *)
(***************************************************************************)

UpperChar(c) ==
    IF \E i \in 1..26 : CharAt(LowerCase, i) = c
    THEN CharAt(UpperCase, CHOOSE i \in 1..26 : CharAt(LowerCase, i) = c)
    ELSE c

RECURSIVE TitleFrom(_, _)
TitleFrom(s, in_word) ==
    IF Len(s) = 0 THEN ""
    ELSE LET c == CharAt(s, 1)
             letter == Contains(LowerCase, LowerChar(c))
         IN  (IF ~letter THEN c ELSE IF in_word THEN LowerChar(c) ELSE UpperChar(c))
             \o TitleFrom(Tail(s), letter)

\* s.title()
Title(s) == TitleFrom(s, FALSE)

RECURSIVE Replace(_, _, _)
\* s.replace(old, new) for a one-character old
Replace(s, old, new) ==
    IF Len(s) = 0 THEN ""
    ELSE (IF CharAt(s, 1) = old THEN new ELSE CharAt(s, 1)) \o Replace(Tail(s), old, new)

RECURSIVE ParseResponseLines(_, _)
\* The loop of _parse_response_to_dict over the remaining lines
ParseResponseLines(lines, result) ==
    IF Len(lines) = 0 THEN result
    ELSE LET line == lines[1]
             colon == Find(line, ":")
         IN  IF colon = -1 THEN ParseResponseLines(Tail(lines), result)
             ELSE ParseResponseLines(
                    Tail(lines),
                    DictPut(result,
                            Replace(Lower(Strip(StripChars(SubSeq(line, 1, colon), "- "))),
                                    " ", "_"),
                            JStr(Strip(SubSeq(line, colon + 2, Len(line))))))

\* _parse_response_to_dict(response)
ParseResponseToDict(response) == ParseResponseLines(Split(response, "\n"), JDict(<<>>))

\* analyze_project_overview(...): the dict returned
AnalyzeProjectOverview(reply) ==
    LET response == QueryLLM(reply)
    IN  IF ~response.is_str THEN JDict(<<>>)          \* AttributeError on .find, caught
        ELSE LET json_start == Find(response.text, "{")
                 json_end == RFind(response.text, "}") + 1
             IN  IF json_start # -1 /\ json_end > json_start
                 THEN LET r == JsonLoads(SubSeq(response.text, json_start + 1, json_end))
                      IN  IF r.raised THEN JDict(<<>>) ELSE r.value
                 ELSE ParseResponseToDict(response.text)

\* pydantic validation of a field declared str, Optional[str] and List[str]
ValidStr(v) == v.t = "str"
ValidOptionalStr(v) == v.t \in {"str", "null"}
ValidStrList(v) == v.t = "list" /\ \A i \in 1..Len(v.items) : v.items[i].t = "str"

\* The strings of a list of str values
StrItems(v) == [i \in 1..Len(v.items) |-> v.items[i].s]

\* The str values of a list of strings
StrValues(list) == JList([i \in 1..Len(list) |-> JStr(list[i])])

\* get_project_name() of the analyzed project
ProjectName == "shop"

\* config_data['dependencies'] of the analyzed project: the artifactIds of the pom.xml
\* in which detect_project_info found Spring Boot; no pom.xml otherwise
PomDependencies(info) ==
    IF InList("Spring Boot", info.frameworks) THEN <<"spring-boot-starter-web">> ELSE <<>>

NoOverview ==
    [project_name |-> None, description |-> None, purpose |-> None,
     key_technologies |-> <<>>, architecture_pattern |-> None,
     main_features |-> <<>>, dependencies |-> <<>>]

\* _analyze_overview(): the ProjectOverview, or raised when pydantic rejects a field
AnalyzeOverview(info, reply) ==
    LET overview_data == AnalyzeProjectOverview(reply)
        dependencies == IF Len(PomDependencies(info)) > 0 THEN PomDependencies(info)
                        ELSE info.frameworks
        project_name == DictGet(overview_data, "project_name", JStr(ProjectName))
        description ==
            DictGet(overview_data, "description", JStr(Title(info.language) \o " project"))
        purpose ==
            DictGet(overview_data, "purpose",
                    JStr("Software project written in " \o info.language))
        key_technologies ==
            DictGet(overview_data, "key_technologies",
                    StrValues(<<Title(info.language)>> \o info.frameworks))
        architecture_pattern ==
            DictGet(overview_data, "architecture_pattern", JStr("Unknown"))
        main_features == DictGet(overview_data, "main_features", JList(<<>>))
    IN  IF /\ ValidStr(project_name) /\ ValidStr(description) /\ ValidStr(purpose)
           /\ ValidStrList(key_technologies) /\ ValidOptionalStr(architecture_pattern)
           /\ ValidStrList(main_features)
        THEN [raised |-> FALSE,
              overview |->
                  [project_name |-> project_name.s,
                   description |-> description.s,
                   purpose |-> purpose.s,
                   key_technologies |-> StrItems(key_technologies),
                   architecture_pattern |->
                       IF architecture_pattern.t = "null" THEN None
                       ELSE architecture_pattern.s,
                   main_features |-> StrItems(main_features),
                   dependencies |-> dependencies]]
        ELSE [raised |-> TRUE, overview |-> NoOverview]

\* AnalyzeOverview for every detected project context and reply of a run, evaluated once
AnalyzedOverviews ==
    [info \in ProjectInfos \ {NoProjectInfo}, reply \in OverviewReplies |->
        AnalyzeOverview(info, reply)]

RECURSIVE DashLines(_)
\* [line.strip('- ').strip() for line in lines
\*  if line.strip() and line.strip().startswith('-')]
DashLines(lines) ==
    IF Len(lines) = 0 THEN <<>>
    ELSE (IF Strip(lines[1]) # "" /\ StartsWith(Strip(lines[1]), "-")
          THEN <<JStr(Strip(StripChars(lines[1], "- ")))>> ELSE <<>>)
         \o DashLines(Tail(lines))

\* generate_recommendations(analysis_summary): the list returned
GenerateRecommendationsFrom(reply) ==
    LET response == QueryLLM(reply)
    IN  IF ~response.is_str THEN JList(<<>>)          \* AttributeError on .find, caught
        ELSE LET json_start == Find(response.text, "[")
                 json_end == RFind(response.text, "]") + 1
             IN  IF json_start # -1 /\ json_end > json_start
                 THEN LET r == JsonLoads(SubSeq(response.text, json_start + 1, json_end))
                      IN  IF r.raised THEN JList(<<>>) ELSE r.value
                 ELSE JList(DashLines(Split(response.text, "\n")))

\* GenerateRecommendationsFrom for every reply of a run, evaluated once
GenerateRecommendations ==
    [reply \in RecommendationReplies |-> GenerateRecommendationsFrom(reply)]

NoAnalysis ==
    [overview |-> NoOverview, statistics |-> Calculate(<<>>), key_methods |-> <<>>,
     key_components |-> Identify(<<>>), complexity_summary |-> NoComplexityData,
     recommendations |-> <<>>, noteworthy_aspects |-> <<>>]

\* CodebaseAnalysis(...): the report, or raised when pydantic rejects a field
BuildAnalysis(ov, stats, methods, components, complexity, recs, aspects) ==
    IF ValidStrList(recs)
    THEN [raised |-> FALSE,
          analysis |->
              [overview |-> ov, statistics |-> stats, key_methods |-> methods,
               key_components |-> components, complexity_summary |-> complexity,
               recommendations |-> StrItems(recs), noteworthy_aspects |-> aspects]]
    ELSE [raised |-> TRUE, analysis |-> NoAnalysis]

NoReport == [analysis |-> NoAnalysis, metadata |-> [analyzer_version |-> ""]]

\* The dict OutputFormatter.save writes: the dumped analysis and the metadata
SavedResult(built) ==
    [analysis |-> built, metadata |-> [analyzer_version |-> "1.0.0"]]


(***************************************************************************)
(* Inputs of a run                                                         *)
(***************************************************************************)

Param(type, name) == [type |-> type, name |-> name]

MethodDecl(name, annotations, return_type, parameters) ==
    [name |-> name, annotations |-> annotations, return_type |-> return_type,
     parameters |-> parameters]

ClassDecl(name, annotations, methods) ==
    [name |-> name, annotations |-> annotations, methods |-> methods]

Source(path, package, classes, total_lines, functions) ==
    [file_path |-> path, readable |-> TRUE, parses |-> TRUE, package |-> package,
     classes |-> classes, total_lines |-> total_lines, code_lines |-> total_lines - 10,
     lizard_ok |-> TRUE, functions |-> functions]

OrderControllerJava ==
    Source("web/OrderController.java", "com.shop.web",
           <<ClassDecl("OrderController", <<>>,
                <<MethodDecl("createOrder", <<>>, "Order",
                             <<Param("OrderRequest", "request")>>),
                  MethodDecl("getId", <<>>, "Long", <<>>)>>)>>,
           120, <<1, 2>>)

WebHelperJava ==
    Source("web/Helper.java", "com.shop.web",
           <<ClassDecl("Helper", <<"Controller">>,
                <<MethodDecl("getStatus", <<"GetMapping">>, "String", <<>>),
                  MethodDecl("run", <<"Transactional">>, None, <<>>)>>)>>,
           400, <<12>>)

DataHelperJava ==
    Source("data/Helper.java", "com.shop.data",
           <<ClassDecl("Helper", <<"Repository", "Entity">>,
                <<MethodDecl("findAll", <<>>, "List", <<>>),
                  MethodDecl("deleteAll", <<>>, None, <<>>),
                  MethodDecl("count", <<>>, "long", <<>>)>>)>>,
           2500, <<>>)

UtilHelperJava ==
    [Source("util/Helper.java", None,
            <<ClassDecl("Helper", <<>>,
                 <<MethodDecl("saveAll", <<>>, None, <<Param("List", "items")>>),
                   MethodDecl("loadAll", <<>>, "List", <<>>),
                   MethodDecl("toString", <<"Async">>, "String", <<>>)>>),
              ClassDecl("WebSecurityConfig", <<>>, <<>>)>>,
            9000, <<4, 8>>)
     EXCEPT !.lizard_ok = FALSE]

CustomerJava ==
    Source("entities/Customer.java", "com.shop.entities",
           <<ClassDecl("Customer", <<>>,
                <<MethodDecl("setLoadFactor", <<>>, None, <<Param("int", "factor")>>),
                  MethodDecl("isAuthorized", <<"Transactional">>, "boolean", <<>>),
                  MethodDecl("Validate", <<>>, "boolean", <<>>),
                  MethodDecl("rent", <<>>, None, <<>>),
                  MethodDecl("send", <<>>, None, <<>>)>>)>>,
           61, <<10>>)

OrderServiceJava ==
    Source("service/OrderService.java", "com.shop.service",
           <<ClassDecl("OrderService", <<"Service">>,
                <<MethodDecl("calculateTotal", <<"Transactional">>, "Money",
                             <<Param("Order", "order"), Param("Tax", "tax")>>),
                  MethodDecl("settle", <<>>, None, <<Param("Order", "order")>>)>>)>>,
           700, <<4, 8, 21>>)

BrokenJava ==
    [Source("Broken.java", None, <<>>, 31, <<>>) EXCEPT !.parses = FALSE]

SampleSources ==
    {OrderControllerJava, WebHelperJava, DataHelperJava, UtilHelperJava,
     CustomerJava, OrderServiceJava, BrokenJava}

\* The paths a directory walk yields are distinct.
SourceLists ==
    UNION {{l \in [1..n -> SampleSources] : \A i, j \in 1..n : l[i] = l[j] => i = j}
           : n \in 0..MaxFiles}

(***************************************************************************)
(* Config.LANGUAGE_PATTERNS and LanguageDetector.get_file_patterns         *)
(***************************************************************************)

LanguagePattern(extensions, config_files, parser) ==
    [extensions |-> extensions, config_files |-> config_files, parser |-> parser]

\* LANGUAGE_PATTERNS as config.py defines it
ConfigLanguagePatterns ==
    [java |-> LanguagePattern(<<"**/*.java">>,
                 <<"**/pom.xml", "**/build.gradle", "**/settings.gradle">>, "java"),
     python |-> LanguagePattern(<<"**/*.py">>,
                 <<"**/requirements.txt", "**/setup.py", "**/pyproject.toml",
                   "**/Pipfile">>, "python"),
     javascript |-> LanguagePattern(<<"**/*.js", "**/*.jsx", "**/*.ts", "**/*.tsx">>,
                 <<"**/package.json", "**/tsconfig.json", "**/.babelrc">>, "javascript"),
     go |-> LanguagePattern(<<"**/*.go">>, <<"**/go.mod", "**/go.sum">>, "go"),
     ruby |-> LanguagePattern(<<"**/*.rb">>, <<"**/Gemfile", "**/Rakefile">>, "ruby"),
     csharp |-> LanguagePattern(<<"**/*.cs">>, <<"**/*.csproj", "**/*.sln">>, "csharp"),
     php |-> LanguagePattern(<<"**/*.php">>, <<"**/composer.json">>, "php")]

\* self.detected_language of a run over Java sources
detected_language == "java"

\* get_file_patterns(language): the list returned and LANGUAGE_PATTERNS after the
\* call. patterns is the extensions list of the table itself, so extend and append
\* change the table.
GetFilePatterns(table, language) ==
    IF language \in DOMAIN table
    THEN LET patterns == table[language].extensions
                         \o table[language].config_files
                         \o <<"**/README.md", "**/readme.md", "**/README.rst",
                              "**/LICENSE">>
         IN  [patterns |-> patterns,
              table |-> [table EXCEPT ![language].extensions = patterns]]
    ELSE [patterns |-> <<"**/*">>, table |-> table]

(***************************************************************************)
(* CodebaseAnalyzer.run                                                    *)
(***************************************************************************)

NoComponents ==
    [controllers |-> <<>>, services |-> <<>>, repositories |-> <<>>,
     entities |-> <<>>, configurations |-> <<>>]

\* No narrative call was made by the last step
NoReply == [kind |-> "none", content |-> ""]

Init ==
    /\ pc = "validate"
    /\ sources \in SourceLists
    /\ llm_analyzer = TRUE
    /\ project_info = NoProjectInfo
    /\ files = <<>>
    /\ overview = NoOverview
    /\ statistics = Calculate(<<>>)
    /\ key_components = NoComponents
    /\ component_type_map = <<>>
    /\ pending = <<>>
    /\ key_methods = <<>>
    /\ emitted = <<>>
    /\ complexity_summary = NoComplexityData
    /\ noteworthy_aspects = <<>>
    /\ recommendations = JList(<<>>)
    /\ analysis = NoAnalysis
    /\ llm_log = <<>>
    /\ last_reply = NoReply
    /\ report = NoReport
    /\ saved = 0
    /\ stopped_at = ""
    /\ LANGUAGE_PATTERNS = ConfigLanguagePatterns
    /\ file_patterns = <<>>

\* A handler that writes what the run has built so far before the process exits
ExitSavingPartial(status) ==
    /\ pc' = status
    /\ stopped_at' = pc
    /\ report' = SavedResult(analysis)
    /\ saved' = saved + 1
    /\ project_info' = NoProjectInfo
    /\ files' = <<>>
    /\ overview' = NoOverview
    /\ statistics' = Calculate(<<>>)
    /\ key_components' = NoComponents
    /\ component_type_map' = <<>>
    /\ pending' = <<>>
    /\ key_methods' = <<>>
    /\ emitted' = <<>>
    /\ complexity_summary' = NoComplexityData
    /\ noteworthy_aspects' = <<>>
    /\ recommendations' = JList(<<>>)
    /\ analysis' = NoAnalysis
    /\ llm_log' = <<>>
    /\ last_reply' = NoReply
    /\ LANGUAGE_PATTERNS' = ConfigLanguagePatterns
    /\ file_patterns' = <<>>
    /\ UNCHANGED <<sources, llm_analyzer>>

\* sys.exit(...) in the except clauses of run: the process ends where it was, its
\* locals and its module state are gone (LANGUAGE_PATTERNS is what config.py defines
\* for the next process), and what the report sink received stays
Exit(status) ==
    /\ pc' = status
    /\ stopped_at' = pc
    /\ project_info' = NoProjectInfo
    /\ files' = <<>>
    /\ overview' = NoOverview
    /\ statistics' = Calculate(<<>>)
    /\ key_components' = NoComponents
    /\ component_type_map' = <<>>
    /\ pending' = <<>>
    /\ key_methods' = <<>>
    /\ emitted' = <<>>
    /\ complexity_summary' = NoComplexityData
    /\ noteworthy_aspects' = <<>>
    /\ recommendations' = JList(<<>>)
    /\ analysis' = NoAnalysis
    /\ llm_log' = <<>>
    /\ last_reply' = NoReply
    /\ LANGUAGE_PATTERNS' = ConfigLanguagePatterns
    /\ file_patterns' = <<>>
    /\ UNCHANGED <<sources, llm_analyzer, report, saved>>

\* config.validate(): raises ValueError for a missing key or codebase path
ValidateConfig ==
    /\ pc = "validate"
    /\ \E valid \in BOOLEAN :
         IF valid
         THEN /\ pc' = "detect"
              /\ UNCHANGED <<sources, llm_analyzer, LANGUAGE_PATTERNS, file_patterns, project_info, files, overview,
                             statistics, key_components, component_type_map, pending,
                             key_methods, emitted, complexity_summary,
                             noteworthy_aspects, recommendations, analysis, llm_log,
                             last_reply, report, saved, stopped_at>>
         ELSE Exit("failed")

\* Step 0: _detect_language()
DetectLanguage ==
    /\ pc = "detect"
    /\ project_info' \in ProjectInfos \ {NoProjectInfo}
    /\ pc' = "parse"
    /\ UNCHANGED <<sources, llm_analyzer, LANGUAGE_PATTERNS, file_patterns, files, overview, statistics, key_components,
                   component_type_map, pending, key_methods, emitted,
                   complexity_summary, noteworthy_aspects, recommendations, analysis,
                   llm_log, last_reply, report, saved, stopped_at>>

\* Step 1: files = self._discover_and_parse_files()
DiscoverAndParse ==
    /\ pc = "parse"
    /\ LET got == GetFilePatterns(LANGUAGE_PATTERNS, detected_language)
       IN  /\ file_patterns' = got.patterns
           /\ LANGUAGE_PATTERNS' = got.table
    /\ files' = DiscoverAndParseFiles(sources)
    /\ pc' = "overview"
    /\ UNCHANGED <<sources, llm_analyzer, project_info, overview, statistics,
                   key_components, component_type_map, pending, key_methods, emitted,
                   complexity_summary, noteworthy_aspects, recommendations, analysis,
                   llm_log, last_reply, report, saved, stopped_at>>

\* Step 2: overview = self._analyze_overview()
AnalyzeProjectOverviewStep ==
    /\ pc = "overview"
    /\ \E reply \in OverviewReplies :
         LET r == AnalyzedOverviews[project_info, reply]
             got == GetFilePatterns(LANGUAGE_PATTERNS, detected_language)
         IN  IF r.raised THEN Exit("failed")
             ELSE /\ file_patterns' = got.patterns
                  /\ LANGUAGE_PATTERNS' = got.table
                  /\ overview' = r.overview
                  /\ llm_log' = Append(llm_log, "overview")
                  /\ last_reply' = reply
                  /\ pc' = "statistics"
                  /\ UNCHANGED <<sources, llm_analyzer, project_info, files, statistics,
                                 key_components, component_type_map, pending,
                                 key_methods, emitted, complexity_summary,
                                 noteworthy_aspects, recommendations, analysis,
                                 report, saved, stopped_at>>

\* Step 3 with a calculate that consumes the list it iterates over
CalculateStatisticsConsumingFiles ==
    /\ pc = "statistics"
    /\ statistics' = Calculate(files)
    /\ files' = <<>>
    /\ last_reply' = NoReply
    /\ pc' = "components"
    /\ UNCHANGED <<sources, llm_analyzer, LANGUAGE_PATTERNS, file_patterns, project_info, overview, key_components,
                   component_type_map, pending, key_methods, emitted,
                   complexity_summary, noteworthy_aspects, recommendations, analysis,
                   llm_log, report, saved, stopped_at>>

\* Step 3: statistics = self.stats_analyzer.calculate(files)
CalculateStatistics ==
    /\ pc = "statistics"
    /\ statistics' = Calculate(files)
    /\ last_reply' = NoReply
    /\ pc' = "components"
    /\ UNCHANGED <<sources, llm_analyzer, LANGUAGE_PATTERNS, file_patterns, project_info, files, overview, key_components,
                   component_type_map, pending, key_methods, emitted,
                   complexity_summary, noteworthy_aspects, recommendations, analysis,
                   llm_log, report, saved, stopped_at>>

\* A run that goes from classification to the complexity analysis and leaves the
\* extraction of key methods out
IdentifyComponentsThenComplexity ==
    /\ pc = "components"
    /\ key_components' = Identify(files)
    /\ last_reply' = NoReply
    /\ pc' = "complexity"
    /\ UNCHANGED <<sources, llm_analyzer, LANGUAGE_PATTERNS, file_patterns, project_info, files, overview, statistics,
                   component_type_map, pending, key_methods, emitted,
                   complexity_summary, noteworthy_aspects, recommendations, analysis,
                   llm_log, report, saved, stopped_at>>

\* Step 4: key_components = self.component_analyzer.identify(files)
IdentifyComponents ==
    /\ pc = "components"
    /\ key_components' = Identify(files)
    /\ last_reply' = NoReply
    /\ pc' = "extract"
    /\ UNCHANGED <<sources, llm_analyzer, LANGUAGE_PATTERNS, file_patterns, project_info, files, overview, statistics,
                   component_type_map, pending, key_methods, emitted,
                   complexity_summary, noteworthy_aspects, recommendations, analysis,
                   llm_log, report, saved, stopped_at>>

\* Step 5, MethodExtractor.extract up to its loops: the reverse index is built
ExtractBegin ==
    /\ pc = "extract"
    /\ component_type_map' = ComponentTypeMap(key_components)
    /\ pending' = KeyPositions(files, ComponentTypeMap(key_components), 1, 1, 1)
    /\ key_methods' = <<>>
    /\ emitted' = <<>>
    /\ last_reply' = NoReply
    /\ pc' = "describe"
    /\ UNCHANGED <<sources, llm_analyzer, LANGUAGE_PATTERNS, file_patterns, project_info, files, overview, statistics,
                   key_components, complexity_summary, noteworthy_aspects,
                   recommendations, analysis, llm_log, report, saved, stopped_at>>

\* A loop body that asks for a description once and reuses the response for the
\* methods that follow
ExtractDescribeCached ==
    /\ pc = "describe"
    /\ Len(pending) > 0
    /\ \E reply \in DescriptionReplies :
         LET pos == pending[1]
             cls == files[pos[1]].classes[pos[2]]
             method == cls.methods[pos[3]]
             asked == Len(key_methods) = 0
             used == IF asked THEN reply ELSE last_reply
         IN  /\ asked \/ reply = last_reply
             /\ key_methods' =
                    Append(key_methods,
                           Summary(cls, method, DescriptionFor(llm_analyzer, used),
                                   MapGet(component_type_map, cls.name)))
             /\ emitted' = Append(emitted, [pos |-> pos, reply |-> used.kind])
             /\ llm_log' = IF asked THEN Append(llm_log, "describe") ELSE llm_log
             /\ last_reply' = used
    /\ pending' = Tail(pending)
    /\ UNCHANGED <<pc, sources, llm_analyzer, LANGUAGE_PATTERNS, file_patterns, project_info, files, overview, statistics,
                   key_components, component_type_map, complexity_summary,
                   noteworthy_aspects, recommendations, analysis, report, saved,
                   stopped_at>>

\* A loop body that also writes the description into the parsed method
ExtractDescribeIntoFiles ==
    /\ pc = "describe"
    /\ Len(pending) > 0
    /\ \E reply \in DescriptionReplies :
         LET pos == pending[1]
             cls == files[pos[1]].classes[pos[2]]
             method == cls.methods[pos[3]]
             description == DescriptionFor(llm_analyzer, reply)
         IN  /\ key_methods' =
                    Append(key_methods,
                           Summary(cls, method, description,
                                   MapGet(component_type_map, cls.name)))
             /\ files' = [files EXCEPT
                            ![pos[1]].classes[pos[2]].methods[pos[3]].description
                                = description]
             /\ emitted' = Append(emitted,
                    [pos |-> pos, reply |-> IF llm_analyzer THEN reply.kind ELSE "no_llm"])
             /\ llm_log' = IF llm_analyzer THEN Append(llm_log, "describe") ELSE llm_log
             /\ last_reply' = IF llm_analyzer THEN reply ELSE NoReply
    /\ pending' = Tail(pending)
    /\ UNCHANGED <<pc, sources, llm_analyzer, LANGUAGE_PATTERNS, file_patterns, project_info, overview, statistics,
                   key_components, component_type_map, complexity_summary,
                   noteworthy_aspects, recommendations, analysis, report, saved,
                   stopped_at>>

\* Step 5, one pass of the loop body of extract that reaches the description request
ExtractDescribe ==
    /\ pc = "describe"
    /\ Len(pending) > 0
    /\ \E reply \in DescriptionReplies :
         LET pos == pending[1]
             cls == files[pos[1]].classes[pos[2]]
             method == cls.methods[pos[3]]
         IN  /\ key_methods' =
                    Append(key_methods,
                           Summary(cls, method, DescriptionFor(llm_analyzer, reply),
                                   MapGet(component_type_map, cls.name)))
             /\ emitted' = Append(emitted,
                    [pos |-> pos, reply |-> IF llm_analyzer THEN reply.kind ELSE "no_llm"])
             /\ llm_log' = IF llm_analyzer THEN Append(llm_log, "describe") ELSE llm_log
             /\ last_reply' = IF llm_analyzer THEN reply ELSE NoReply
    /\ pending' = Tail(pending)
    /\ UNCHANGED <<pc, sources, llm_analyzer, LANGUAGE_PATTERNS, file_patterns, project_info, files, overview, statistics,
                   key_components, component_type_map, complexity_summary,
                   noteworthy_aspects, recommendations, analysis, report, saved,
                   stopped_at>>

\* Step 5: extract returns key_methods
ExtractReturn ==
    /\ pc = "describe"
    /\ Len(pending) = 0
    /\ last_reply' = NoReply
    /\ pc' = "complexity"
    /\ UNCHANGED <<sources, llm_analyzer, LANGUAGE_PATTERNS, file_patterns, project_info, files, overview, statistics,
                   key_components, component_type_map, pending, key_methods, emitted,
                   complexity_summary, noteworthy_aspects, recommendations, analysis,
                   llm_log, report, saved, stopped_at>>

\* Step 6: complexity_summary = self.complexity_analyzer.analyze(files, self.project_info)
AnalyzeComplexity ==
    /\ pc = "complexity"
    /\ \E reply \in InterpretationReplies :
         LET r == Analyze(files, project_info, llm_analyzer, reply)
         IN  /\ complexity_summary' = r.summary
             /\ llm_log' = IF r.queried THEN Append(llm_log, "interpret") ELSE llm_log
             /\ last_reply' = IF r.queried THEN reply ELSE NoReply
    /\ pc' = "aspects"
    /\ UNCHANGED <<sources, llm_analyzer, LANGUAGE_PATTERNS, file_patterns, project_info, files, overview, statistics,
                   key_components, component_type_map, pending, key_methods, emitted,
                   noteworthy_aspects, recommendations, analysis, report, saved,
                   stopped_at>>

\* Step 7: noteworthy_aspects = self.aspect_analyzer.identify(...)
IdentifyNoteworthyAspects ==
    /\ pc = "aspects"
    /\ \E reply \in AspectReplies :
         LET r == IdentifyAspects(statistics, complexity_summary, key_components,
                                  project_info, llm_analyzer, reply)
         IN  IF r.raised THEN Exit("failed")
             ELSE /\ noteworthy_aspects' = r.aspects
                  /\ llm_log' = IF r.queried THEN Append(llm_log, "aspects") ELSE llm_log
                  /\ last_reply' = IF r.queried THEN reply ELSE NoReply
                  /\ pc' = "recommendations"
                  /\ UNCHANGED <<sources, llm_analyzer, LANGUAGE_PATTERNS, file_patterns, project_info, files, overview,
                                 statistics, key_components, component_type_map,
                                 pending, key_methods, emitted, complexity_summary,
                                 recommendations, analysis, report, saved, stopped_at>>

\* Step 8: recommendations = self._generate_recommendations(files, statistics)
GenerateRecommendationsStep ==
    /\ pc = "recommendations"
    /\ \E reply \in RecommendationReplies :
         recommendations' = GenerateRecommendations[reply]
    /\ last_reply' = NoReply
    /\ llm_log' = Append(llm_log, "recommend")
    /\ pc' = "build"
    /\ UNCHANGED <<sources, llm_analyzer, LANGUAGE_PATTERNS, file_patterns, project_info, files, overview, statistics,
                   key_components, component_type_map, pending, key_methods, emitted,
                   complexity_summary, noteworthy_aspects, analysis, report, saved,
                   stopped_at>>

\* Step 9: analysis = CodebaseAnalysis(...)
BuildFinalAnalysis ==
    /\ pc = "build"
    /\ LET r == BuildAnalysis(overview, statistics, key_methods, key_components,
                              complexity_summary, recommendations, noteworthy_aspects)
       IN  IF r.raised THEN Exit("failed")
           ELSE /\ analysis' = r.analysis
                /\ last_reply' = NoReply
                /\ pc' = "save"
                /\ UNCHANGED <<sources, llm_analyzer, LANGUAGE_PATTERNS, file_patterns, project_info, files, overview,
                               statistics, key_components, component_type_map, pending,
                               key_methods, emitted, complexity_summary,
                               noteworthy_aspects, recommendations, llm_log, report,
                               saved, stopped_at>>

\* Step 10: OutputFormatter.save(analysis), then run returns the analysis
SaveResults ==
    /\ pc = "save"
    /\ report' = SavedResult(analysis)
    /\ saved' = saved + 1
    /\ pc' = "saved"
    /\ UNCHANGED <<sources, llm_analyzer, LANGUAGE_PATTERNS, file_patterns, project_info, files, overview, statistics,
                   key_components, component_type_map, pending, key_methods, emitted,
                   complexity_summary, noteworthy_aspects, recommendations, analysis,
                   llm_log, last_reply, stopped_at>>

\* KeyboardInterrupt while run is at any of its steps: sys.exit(0)
Interrupt ==
    /\ pc \notin {"saved", "failed", "interrupted"}
    /\ Exit("interrupted")

\* The steps of run, in the order of its code
Run ==
    \/ ValidateConfig
    \/ DetectLanguage
    \/ DiscoverAndParse
    \/ AnalyzeProjectOverviewStep
    \/ CalculateStatistics
    \/ IdentifyComponents
    \/ ExtractBegin
    \/ ExtractDescribe
    \/ ExtractReturn
    \/ AnalyzeComplexity
    \/ IdentifyNoteworthyAspects
    \/ GenerateRecommendationsStep
    \/ BuildFinalAnalysis
    \/ SaveResults

Next == Run \/ Interrupt

Spec == Init /\ [][Next]_vars

\* Bound: number of source files of one run when eventual completion is checked.
MaxLiveFiles == 1

LiveInit == Init /\ Len(sources) <= MaxLiveFiles

\* The interpreter keeps executing run until it returns or the process exits
LiveSpec == LiveInit /\ [][Next]_vars /\ WF_vars(Run)


(***************************************************************************)
(* The response parsing of _get_llm_insights, applied to a response        *)
(***************************************************************************)

\* Bound: number of lines of one response.
MaxResponseLines == 2

\* Lines of a response: headings, a blank line, remarks of 10, 19, 20 and 21
\* characters, with the bullet markers and the whitespace in different places
ResponseLines ==
    {"## S", "#", "", "- looks fine", "-- 1234567890123456789",
     "- 12345678901234567890", "12345678901234567890 -", " - 123456789012345678901 "}

\* The non-empty str values _query_llm can return for the aspects request
ResponseTexts ==
    {text \in {Join(lines, "\n") :
                  lines \in UNION {[1..n -> ResponseLines] : n \in 1..MaxResponseLines}} :
        text # ""}

\* A response has arrived (`if response:` is true) and nothing else has happened
ParseInit ==
    /\ pc = "response"
    /\ last_reply \in {TextReply(text) : text \in ResponseTexts}
    /\ sources = <<>>
    /\ llm_analyzer = TRUE
    /\ project_info = NoProjectInfo
    /\ files = <<>>
    /\ overview = NoOverview
    /\ statistics = Calculate(<<>>)
    /\ key_components = NoComponents
    /\ component_type_map = <<>>
    /\ pending = <<>>
    /\ key_methods = <<>>
    /\ emitted = <<>>
    /\ complexity_summary = NoComplexityData
    /\ noteworthy_aspects = <<>>
    /\ recommendations = JList(<<>>)
    /\ analysis = NoAnalysis
    /\ llm_log = <<>>
    /\ report = NoReport
    /\ saved = 0
    /\ stopped_at = ""
    /\ LANGUAGE_PATTERNS = ConfigLanguagePatterns
    /\ file_patterns = <<>>

\* aspects = [...]; return [a for a in aspects if len(a) > 20]
ParseResponse ==
    /\ pc = "response"
    /\ noteworthy_aspects' = ParseAspects(last_reply.content)
    /\ pc' = "parsed"
    /\ UNCHANGED <<sources, llm_analyzer, LANGUAGE_PATTERNS, file_patterns, project_info, files, overview, statistics,
                   key_components, component_type_map, pending, key_methods, emitted,
                   complexity_summary, recommendations, analysis, llm_log, last_reply,
                   report, saved, stopped_at>>

ParseSpec == ParseInit /\ [][ParseResponse]_vars

(***************************************************************************)
(* Properties                                                              *)
(***************************************************************************)

\* The positions of a run that has not exited, in the order run passes them
Steps ==
    <<"validate", "detect", "parse", "overview", "statistics", "components", "extract",
      "describe", "complexity", "aspects", "recommendations", "build", "save", "saved">>

StepIndex(step) == CHOOSE i \in 1..Len(Steps) : Steps[i] = step

\* The run is past the given position and has not exited
After(step) == InList(pc, Steps) /\ StepIndex(pc) > StepIndex(step)

ParseDone == After("parse")
ComponentsDone == After("components")
ExtractDone == After("describe")
ComplexityDone == After("complexity")
AspectsDone == After("aspects")

\* The sources parse_file returned a FileInfo for, in order: files[i] is made from
\* ParsedSources[i]
ParsedSources == SelectSeq(sources, LAMBDA src : src.readable)

\* C1: once identify has returned, no class name is in the lists of two different
\* roles of the ComponentMap.
C1_NoNameUnderTwoRoles ==
    ComponentsDone =>
        \A r1, r2 \in 1..Len(Roles) :
            r1 # r2 =>
                ~\E i \in 1..Len(key_components[Roles[r1]]) :
                    InList(key_components[Roles[r1]][i], key_components[Roles[r2]])

\* C2: when the files are parsed, for every method, is_business_logic is false when the name starts with
\* 'get' and there are 0 parameters, with 'set' and 1 parameter, or with 'is' and 0
\* parameters, whatever its annotations and keywords; createOrder(OrderRequest) is
\* business logic.
C2_AccessorsAreNeverBusinessLogic ==
    pc = "overview" =>
        \A f \in 1..Len(files) : \A c \in 1..Len(files[f].classes) :
            \A m \in 1..Len(files[f].classes[c].methods) :
                LET decl == ParsedSources[f].classes[c].methods[m]
                    info == files[f].classes[c].methods[m]
                    n == Len(decl.parameters)
                IN  /\ (StartsWith(decl.name, "get") /\ n = 0) => ~info.is_business_logic
                    /\ (StartsWith(decl.name, "set") /\ n = 1) => ~info.is_business_logic
                    /\ (StartsWith(decl.name, "is") /\ n = 0) => ~info.is_business_logic
                    /\ (decl.name = "createOrder" /\ n = 1) => info.is_business_logic

\* C2 witness: a parsed getter with a business annotation, a parsed setter and a parsed
\* predicate accessor whose names hold a business keyword, and createOrder.
C2_Witness ==
    /\ ParseDone
    /\ \E f \in 1..Len(files) : \E c \in 1..Len(files[f].classes) :
          \E m \in 1..Len(files[f].classes[c].methods) :
            LET info == files[f].classes[c].methods[m]
            IN  /\ info.name = "getStatus"
                /\ InList("GetMapping", info.annotations)
                /\ ~info.is_business_logic
    /\ \E f \in 1..Len(files) : \E c \in 1..Len(files[f].classes) :
          \E m1, m2 \in 1..Len(files[f].classes[c].methods) :
            /\ files[f].classes[c].methods[m1].name = "setLoadFactor"
            /\ files[f].classes[c].methods[m2].name = "isAuthorized"
            /\ ~files[f].classes[c].methods[m1].is_business_logic
            /\ ~files[f].classes[c].methods[m2].is_business_logic

\* The class and the method a summary was made from
ClassAt(pos) == files[pos[1]].classes[pos[2]]
MethodAt(pos) == ClassAt(pos).methods[pos[3]]
\* The role the classifier gave that class
RoleAt(pos) == RoleOf(files[pos[1]], ClassAt(pos))

\* C3: every summary extract emitted is for a business-logic method of a class the
\* classifier placed under controllers or services.
C3_OnlyKeyComponentMethods ==
    ExtractDone =>
        \A i \in 1..Len(emitted) :
            /\ RoleAt(emitted[i].pos) \in {"controllers", "services"}
            /\ MethodAt(emitted[i].pos).is_business_logic

\* <<f, c, m>> for every method of every class of every file
AllPositions ==
    UNION {UNION {{<<f, c, m>> : m \in 1..Len(files[f].classes[c].methods)}
                  : c \in 1..Len(files[f].classes)}
           : f \in 1..Len(files)}

\* C4: extract emits exactly one summary for every business-logic method of every
\* class the classifier placed under controllers or services.
C4_EveryKeyMethodOnce ==
    ExtractDone =>
        \A pos \in AllPositions :
            (RoleAt(pos) \in {"controllers", "services"} /\ MethodAt(pos).is_business_logic)
                => Cardinality({i \in 1..Len(emitted) : emitted[i].pos = pos}) = 1

\* The positions extract describes when no request fails, in order
ExpectedPositions == KeyPositions(files, ComponentTypeMap(key_components), 1, 1, 1)

\* C5: extract emits the same summaries in the same order whatever the replies, a
\* method whose description request failed has the description None, and a method
\* whose request returned text has a description.
C5_FailedDescriptionIsNone ==
    ExtractDone =>
        /\ Len(key_methods) = Len(ExpectedPositions)
        /\ \A i \in 1..Len(key_methods) :
              /\ emitted[i].pos = ExpectedPositions[i]
              /\ emitted[i].reply = "raise" => key_methods[i].description = None
              /\ emitted[i].reply = "text" => key_methods[i].description \notin {None, ""}

\* The narrative service was asked for a complexity interpretation
InterpretationQueried == InList("interpret", llm_log)

\* C6: when no file has a complexity score, analyze returns only the informational
\* message (no numeric field) and the narrative service is not queried.
C6_NoDataState ==
    (ComplexityDone /\ \A i \in 1..Len(files) : ~files[i].complexity.present) =>
        /\ DOMAIN complexity_summary = {"message"}
        /\ ~InterpretationQueried

\* C6 witness: analyze has run on a non-empty list without any score, with a narrative
\* service and a project context that would let it be queried.
C6_Witness ==
    /\ ComplexityDone
    /\ Len(files) > 0
    /\ \A i \in 1..Len(files) : ~files[i].complexity.present
    /\ llm_analyzer
    /\ ~ContextRaises(project_info)

\* The scores of the files whose score is not None, in file order
PresentScores ==
    LET present == SelectSeq(files, LAMBDA f : f.complexity.present)
    IN  [i \in 1..Len(present) |-> Rat(present[i].complexity.num, present[i].complexity.den)]

\* C7: average, min and max are taken over exactly the files whose score is not None
\* (a score of 0 included), and the no-data state is returned only when there is none.
C7_AggregatesOverPresentScores ==
    ComplexityDone =>
        IF Len(PresentScores) = 0 THEN DOMAIN complexity_summary = {"message"}
        ELSE /\ "average_complexity" \in DOMAIN complexity_summary
             /\ complexity_summary.average_complexity =
                    Rat(RatSum(PresentScores).num,
                        RatSum(PresentScores).den * Len(PresentScores))
             /\ complexity_summary.min_complexity = RatMin(PresentScores)
             /\ complexity_summary.max_complexity = RatMax(PresentScores)

NumericKeys ==
    {"average_complexity", "min_complexity", "max_complexity", "high_complexity_files"}

NumericFields(summary) == [k \in NumericKeys \cap DOMAIN summary |-> summary[k]]

\* C8: when some file has a complexity score, the four numeric fields are present and
\* are the same as for every other behaviour of the narrative service (absent,
\* raising, empty text, text).
C8_NumericFieldsIndependentOfNarrative ==
    (ComplexityDone /\ \E i \in 1..Len(files) : files[i].complexity.present) =>
        /\ NumericKeys \subseteq DOMAIN complexity_summary
        /\ \A has_llm \in BOOLEAN : \A reply \in InterpretationReplies :
              NumericFields(Analyze(files, project_info, has_llm, reply).summary)
                  = NumericFields(complexity_summary)

\* analyze had complexity data and a narrative service, and its interpretation request
\* failed: the call raised before the service was reached, the service raised, or it
\* returned empty text
InterpretationFailed ==
    /\ pc = "aspects"
    /\ llm_analyzer
    /\ complexity_summary # NoComplexityData
    /\ (last_reply = NoReply \/ last_reply.kind = "raise" \/ last_reply = TextReply(""))

\* C9: when the interpretation request failed or returned empty text, the summary has
\* no interpretation field (and analyze returned it: the run is past analyze).
C9_NoInterpretationOnFailure ==
    InterpretationFailed => "interpretation" \notin DOMAIN complexity_summary

\* analyze returned the four numeric fields and no interpretation after a request
\* that failed although the project context names a framework.
C9_Witness ==
    /\ InterpretationFailed
    /\ ~ContextRaises(project_info) /\ project_info.present
    /\ DOMAIN complexity_summary = NumericKeys

\* Just after identify returned: the list parsed from the narrative response; empty
\* when there was no response (not queried, call failed, content not text)
\* The list _get_llm_insights parses from each reply that is a text, evaluated once
ParsedReplies ==
    [reply \in {r \in AspectReplies : r.kind = "text"} |-> ParseAspects(reply.content)]

ParsedFromResponse ==
    IF last_reply.kind = "text" THEN ParsedReplies[last_reply] ELSE <<>>

\* C10: identify returns exactly the list parsed from the narrative response when that
\* list is non-empty and exactly the rule-based list otherwise (also when it was given
\* no narrative service), and it does not raise.
C10_NarrativeOrRuleBased ==
    /\ ~(pc = "failed" /\ stopped_at = "aspects")
    /\ pc = "recommendations" =>
          /\ noteworthy_aspects =
                IF Len(ParsedFromResponse) > 0 THEN ParsedFromResponse
                ELSE RuleBasedAnalysis(statistics, complexity_summary, key_components)
          /\ IdentifyAspects(statistics, complexity_summary, key_components,
                             project_info, FALSE, RaiseReply).aspects
                = RuleBasedAnalysis(statistics, complexity_summary, key_components)

\* C10 witness: identify had a narrative service and a project context naming a
\* framework, its request failed, and it returned the rule-based list of several
\* observations.
C10_Witness ==
    /\ pc = "recommendations"
    /\ llm_analyzer /\ project_info.present /\ ~ContextRaises(project_info)
    /\ Len(ParsedFromResponse) = 0
    /\ Len(noteworthy_aspects) > 2
    /\ noteworthy_aspects = RuleBasedAnalysis(statistics, complexity_summary, key_components)

\* C11: whenever the parsed-file step has completed, the run eventually hands a
\* CodebaseAnalysis to the report sink, whatever the narrative calls do (unless the
\* caller interrupts it).
C11_ReportEventuallySaved ==
    [](ParseDone => <>(pc = "saved" \/ pc = "interrupted"))

\* C12: no reply of the narrative service makes the run end in the hard-failure
\* exit: the only step that may stop the run with a failure is the validation of
\* the configuration, which precedes every narrative call.
C12_MalformedReplyNeverFails ==
    pc = "failed" => stopped_at = "validate"

StatisticsDone == After("statistics")

\* calculate has just returned
StatisticsReturned == pc = "components"

\* q is the floor of n / d, and 0 when d is 0
IsFloorOrZero(q, n, d) ==
    IF d = 0 THEN q = 0 ELSE q * d <= n /\ n < (q + 1) * d

\* C13: when calculate has returned, average_file_size is floor(total_lines / total_files) and
\* average_methods_per_class is floor(total_methods / total_classes); with a
\* divisor of 0 (no files, or no classes) the average is 0.
C13_AveragesAreFloored ==
    StatisticsReturned =>
        /\ statistics.total_files = Len(files)
        /\ IsFloorOrZero(statistics.average_file_size,
                         statistics.total_lines, statistics.total_files)
        /\ IsFloorOrZero(statistics.average_methods_per_class,
                         statistics.total_methods, statistics.total_classes)

\* Neither division is exact: flooring, rounding and rounding up differ.
C13_Witness ==
    /\ StatisticsReturned
    /\ statistics.total_files > 1
    /\ statistics.total_lines % statistics.total_files # 0
    /\ statistics.total_classes > 1
    /\ statistics.total_methods % statistics.total_classes # 0

\* Statistics were computed for files none of which has a class.
C13_ZeroDivisor ==
    /\ StatisticsReturned
    /\ statistics.total_files > 0
    /\ statistics.total_classes = 0
    /\ statistics.average_methods_per_class = 0

\* C14: when calculate has returned, total_methods is the number of methods, over all classes of all files, whose
\* is_business_logic flag is true.
C14_TotalMethodsCountsBusinessLogic ==
    StatisticsReturned =>
        statistics.total_methods
            = Cardinality({pos \in AllPositions : MethodAt(pos).is_business_logic})

\* Some methods of the parsed files are counted and some are not.
C14_Witness ==
    /\ StatisticsReturned
    /\ statistics.total_methods > 0
    /\ \E pos \in AllPositions : ~MethodAt(pos).is_business_logic
    /\ statistics.total_methods < Cardinality(AllPositions)

FailingReplies == {RaiseReply, NonStrReply, TextReply("")}

\* The list identify(statistics, complexity_summary, key_components, info) returns
\* now, with the service (present or not) failing with the given reply
IdentifyAgain(info, has_llm, reply) ==
    IdentifyAspects(statistics, complexity_summary, key_components,
                    info, has_llm, reply).aspects

Before(p, q) ==
    \/ p[1] < q[1]
    \/ p[1] = q[1] /\ p[2] < q[2]
    \/ p[1] = q[1] /\ p[2] = q[2] /\ p[3] < q[3]

\* C17: during the loop of extract and when it has returned, its summaries are in
\* file order, then class order, then method order: the i-th summary is for a method
\* of the input and every later summary is for a method later in the traversal.
C17_SummariesInTraversalOrder ==
    pc \in {"describe", "complexity"} =>
        /\ Len(key_methods) = Len(emitted)
        /\ \A i \in 1..Len(key_methods) :
              /\ emitted[i].pos \in AllPositions
              /\ key_methods[i].class_name = ClassAt(emitted[i].pos).name
              /\ key_methods[i].method_name = MethodAt(emitted[i].pos).name
              /\ key_methods[i].signature = MethodAt(emitted[i].pos).signature
        /\ \A i, j \in 1..Len(key_methods) :
              i < j => Before(emitted[i].pos, emitted[j].pos)

\* extract returned summaries for two methods of one class and for a method of
\* another file.
C17_Witness ==
    /\ pc = "complexity"
    /\ \E i, j, k \in 1..Len(key_methods) :
          /\ i < j /\ j < k
          /\ emitted[i].pos[1] # emitted[k].pos[1]
          /\ \/ emitted[i].pos[1] = emitted[j].pos[1] /\ emitted[i].pos[2] = emitted[j].pos[2]
             \/ emitted[j].pos[1] = emitted[k].pos[1] /\ emitted[j].pos[2] = emitted[k].pos[2]

\* Every stage of the run has completed: the report was built from the results of
\* the stages, which are still those of the parsed files.
EveryStageCompleted ==
    /\ Len(files) = Len(ParsedSources)
    /\ \A i \in 1..Len(files) : files[i].file_path = ParsedSources[i].file_path
    /\ InList("overview", llm_log)
    /\ statistics = Calculate(files)
    /\ key_components = Identify(files)
    /\ pending = <<>> /\ Len(key_methods) = Len(ExpectedPositions)
    /\ InList("recommend", llm_log)
    /\ analysis = BuildAnalysis(overview, statistics, key_methods, key_components,
                                complexity_summary, recommendations,
                                noteworthy_aspects).analysis

\* C18: OutputFormatter.save is invoked at most once per run, only after every stage
\* has completed and with the report built from them; a run that was interrupted or
\* that failed has not invoked save.
C18_SaveOnceAfterEveryStage ==
    /\ saved <= 1
    /\ saved = 1 <=> pc = "saved"
    /\ pc = "saved" => EveryStageCompleted /\ report = SavedResult(analysis)
    /\ pc # "saved" => report = NoReport

\* The caller interrupted the run after its last stage, just before save: nothing
\* was written.
C18_Witness ==
    /\ pc = "interrupted"
    /\ stopped_at = "save"
    /\ saved = 0
    /\ report = NoReport

\* The run saved the report of two parsed files.
C18_Saved ==
    /\ pc = "saved"
    /\ saved = 1
    /\ Len(report.analysis.key_methods) > 0
    /\ report.analysis.statistics.total_files > 1

\* The predicate of a role, for the class at <<file, class>>
RoleMatches(role, pos) ==
    LET file == files[pos[1]]
        cls == file.classes[pos[2]]
        package == IF file.package = None THEN "" ELSE file.package
    IN  CASE role = "controllers" ->
                Contains(cls.name, "Controller") \/ InList("Controller", cls.annotations)
          [] role = "services" ->
                Contains(cls.name, "Service") \/ InList("Service", cls.annotations)
          [] role = "repositories" ->
                Contains(cls.name, "Repository") \/ InList("Repository", cls.annotations)
          [] role = "entities" ->
                InList("Entity", cls.annotations) \/ Contains(package, "entities")
          [] role = "configurations" ->
                InList("Configuration", cls.annotations) \/ Contains(cls.name, "Config")

\* The role is the first, in the order of Roles, whose predicate the class matches
IsFirstMatch(r, pos) ==
    /\ RoleMatches(Roles[r], pos)
    /\ \A q \in 1..(r - 1) : ~RoleMatches(Roles[q], pos)

\* <<f, c>> for every class of every parsed file
AllClassPositions ==
    UNION {{<<f, c>> : c \in 1..Len(files[f].classes)} : f \in 1..Len(files)}

\* C19: when identify has returned, the list of every role holds, in traversal
\* order, the names of exactly the classes for which that role is the first one, in
\* the order controllers, services, repositories, entities, configurations, whose
\* predicate matches; a class matching none is in no list.
C19_FirstMatchingRole ==
    pc = "extract" =>
        \A r \in 1..Len(Roles) :
            LET first == SelectSeq(ClassPositions(files, 1, 1),
                                   LAMBDA pos : IsFirstMatch(r, pos))
            IN  key_components[Roles[r]]
                    = [i \in 1..Len(first) |-> files[first[i][1]].classes[first[i][2]].name]

\* A class matches the predicates of two roles and is listed under the earlier one;
\* another class matches none.
C19_Witness ==
    /\ pc = "extract"
    /\ \E pos \in AllClassPositions :
          /\ RoleMatches("repositories", pos) /\ RoleMatches("entities", pos)
          /\ InList(files[pos[1]].classes[pos[2]].name, key_components.repositories)
          /\ key_components.entities = <<>>
    /\ \E pos \in AllClassPositions :
          \A r \in 1..Len(Roles) : ~RoleMatches(Roles[r], pos)

\* The method declaration a parsed method was made from
DeclAt(pos) == ParsedSources[pos[1]].classes[pos[2]].methods[pos[3]]

\* The getter, setter, predicate-accessor and utility-name rules exclude the method
Excluded(decl) ==
    LET n == Len(decl.parameters)
    IN  \/ StartsWith(decl.name, "get") /\ n = 0
        \/ StartsWith(decl.name, "set") /\ n = 1
        \/ StartsWith(decl.name, "is") /\ n = 0
        \/ decl.name \in {"equals", "hashCode", "toString", "clone", "finalize"}

HasBusinessAnnotation(decl) ==
    \E i \in 1..Len(decl.annotations) :
        decl.annotations[i] \in {"PostMapping", "GetMapping", "PutMapping", "DeleteMapping",
                                 "RequestMapping", "Service", "Transactional", "Async"}

HasBusinessKeyword(decl) ==
    \E keyword \in {"create", "update", "delete", "save", "find", "search", "process",
                     "calculate", "validate", "authenticate", "authorize", "send",
                     "receive", "fetch", "load", "rent"} :
        Contains(Lower(decl.name), keyword)

\* C20: when the files are parsed, a method the accessor and utility-name rules do
\* not exclude is business logic if and only if it has an annotation of the business
\* set or its lower-cased name contains a keyword; a method named equals, hashCode,
\* toString, clone or finalize is not, even with a business annotation.
C20_AnnotationOrKeyword ==
    pc = "overview" =>
        \A pos \in AllPositions :
            /\ ~Excluded(DeclAt(pos)) =>
                  (MethodAt(pos).is_business_logic
                      <=> (HasBusinessAnnotation(DeclAt(pos)) \/ HasBusinessKeyword(DeclAt(pos))))
            /\ DeclAt(pos).name \in {"equals", "hashCode", "toString", "clone", "finalize"}
                  => ~MethodAt(pos).is_business_logic

\* Parsed: toString with a business annotation (not business logic) and a method
\* without business annotation that is business logic by a keyword found only after
\* lower-casing its name.
C20_Witness ==
    /\ pc = "overview"
    /\ \E pos \in AllPositions :
          /\ DeclAt(pos).name = "toString" /\ HasBusinessAnnotation(DeclAt(pos))
          /\ ~MethodAt(pos).is_business_logic
    /\ \E pos \in AllPositions :
          /\ ~Excluded(DeclAt(pos)) /\ ~HasBusinessAnnotation(DeclAt(pos))
          /\ DeclAt(pos).name = "Validate"
          /\ MethodAt(pos).is_business_logic

\* Parsed: a method the rules do not exclude, with neither a business annotation nor
\* a keyword.
C20_NeitherAnnotationNorKeyword ==
    /\ pc = "overview"
    /\ \E pos \in AllPositions :
          /\ ~Excluded(DeclAt(pos)) /\ ~HasBusinessAnnotation(DeclAt(pos))
          /\ ~HasBusinessKeyword(DeclAt(pos))
          /\ ~MethodAt(pos).is_business_logic

\* analyze has just returned
ComplexityReturned == pc = "aspects"

\* The complexity of the i-th parsed file is a number strictly greater than 10
AboveTen(i) ==
    files[i].complexity.present /\ files[i].complexity.num > 10 * files[i].complexity.den

\* C21: when analyze has returned a summary with data, high_complexity_files is the
\* list, in file order, of the paths of exactly the files whose complexity is
\* strictly greater than 10; without data no file is above 10.
C21_HighComplexityStrictlyAboveTen ==
    ComplexityReturned =>
        LET above == SelectSeq([i \in 1..Len(files) |-> i], AboveTen)
        IN  IF "high_complexity_files" \in DOMAIN complexity_summary
            THEN complexity_summary.high_complexity_files
                    = [k \in 1..Len(above) |-> files[above[k]].file_path]
            ELSE Len(above) = 0

\* A file with complexity exactly 10 is not listed and a file above 10 is.
C21_Witness ==
    /\ ComplexityReturned
    /\ \E i, j \in 1..Len(files) :
          /\ files[i].complexity = SomeFloat(Rat(10, 1))
          /\ AboveTen(j)
          /\ complexity_summary.high_complexity_files = <<files[j].file_path>>

RuleOf(note) ==
    IF StartsWith(note, "Well-structured MVC architecture") THEN "architecture"
    ELSE IF StartsWith(note, "Data model contains") THEN "entities"
    ELSE IF StartsWith(note, "Low code complexity") THEN "positive"
    ELSE IF StartsWith(note, "High code complexity") THEN "warning"
    ELSE IF Contains(note, " files with high complexity (>10)") THEN "high_count"
    ELSE IF StartsWith(note, "Compact codebase") THEN "compact"
    ELSE IF StartsWith(note, "Large codebase") THEN "modularization"
    ELSE IF StartsWith(note, "Classes have few business methods") THEN "responsibility"
    ELSE IF StartsWith(note, "Spring Security configured") THEN "security"
    ELSE "other"

\* <<rule>> when the condition holds, nothing otherwise
When(condition, rule) == IF condition THEN <<rule>> ELSE <<>>

\* The rules whose conditions hold for the results the run holds, in the order of the
\* fallback
RulesThatApply ==
    LET has_average == "average_complexity" \in DOMAIN complexity_summary
        average == complexity_summary.average_complexity
    IN  When(key_components.controllers # <<>> /\ key_components.services # <<>>,
             "architecture")
        \o When(key_components.entities # <<>>, "entities")
        \o When(has_average /\ average.num < 2 * average.den, "positive")
        \o When(has_average /\ average.num > 5 * average.den, "warning")
        \o When("high_complexity_files" \in DOMAIN complexity_summary
                /\ complexity_summary.high_complexity_files # <<>>, "high_count")
        \o When(statistics.total_lines < 3000, "compact")
        \o When(statistics.total_lines > 10000, "modularization")
        \o When(statistics.total_classes = 0
                \/ statistics.total_methods < 3 * statistics.total_classes,
                "responsibility")
        \o When(\E i \in 1..Len(key_components.configurations) :
                    key_components.configurations[i] = "WebSecurityConfig", "security")

\* identify has just returned and the narrative path gave it nothing
FallbackReturned ==
    pc = "recommendations" /\ (last_reply \in FailingReplies \/ last_reply = NoReply)

\* C23: the rule-based fallback emits one observation for each rule whose condition
\* holds and none for the others, in the order architecture, entities, average
\* complexity, high-complexity count, size, methods per class, security.
C23_RuleBasedRules ==
    FallbackReturned =>
        [i \in 1..Len(noteworthy_aspects) |-> RuleOf(noteworthy_aspects[i])]
            = RulesThatApply

\* The fallback emitted the positive complexity note, the compact note and the
\* single-responsibility note, and no other.
C23_Witness ==
    /\ FallbackReturned
    /\ RulesThatApply = <<"positive", "compact", "responsibility">>
    /\ Len(noteworthy_aspects) = 3

\* The number of narrative requests of one kind the run has issued
Requests(kind) == Len(SelectSeq(llm_log, LAMBDA entry : entry = kind))

\* C24: the narrative requests are issued one at a time: while extract runs there is
\* exactly one description request per emitted KeyMethodSummary and the newest
\* summary carries the response to its own request; analyze issues at most one
\* interpretation request and none without complexity data; identify issues at most
\* one aspect request.
C24_OneNarrativeCallAtATime ==
    /\ pc = "describe" =>
          /\ Requests("describe") = Len(key_methods)
          /\ Requests("interpret") = 0
          /\ Requests("aspects") = 0
          /\ Len(key_methods) > 0 =>
                key_methods[Len(key_methods)].description
                    = DescriptionFor(llm_analyzer, last_reply)
    /\ pc = "aspects" =>
          /\ Requests("describe") = Len(key_methods)
          /\ Requests("interpret") <= 1
          /\ complexity_summary = NoComplexityData => Requests("interpret") = 0
          /\ Requests("aspects") = 0
    /\ pc = "recommendations" =>
          /\ Requests("describe") = Len(key_methods)
          /\ Requests("interpret") <= 1
          /\ Requests("aspects") <= 1

\* Two summaries were emitted from two different responses, and analyze and identify
\* have returned.
C24_Witness ==
    /\ pc = "recommendations"
    /\ Len(key_methods) = 2
    /\ emitted[1].reply # emitted[2].reply
    /\ key_methods[1].description # key_methods[2].description
    /\ llm_log = <<"overview", "describe", "describe">>

\* The stage the run is about to start, when it is at the call of one
AboutToStart(stage) == pc = stage

\* C25 (as stated): whenever statistics, complexity analysis or key-method extraction
\* is about to start, classification has completed; whenever aspect identification
\* is about to start, statistics, complexity analysis and classification have
\* completed; when the report is assembled every stage has completed.
C25_ClassificationBeforeStatistics ==
    /\ AboutToStart("statistics") => ComponentsDone
    /\ AboutToStart("extract") => ComponentsDone
    /\ AboutToStart("complexity") => ComponentsDone
    /\ AboutToStart("aspects") => StatisticsDone /\ ComplexityDone /\ ComponentsDone
    /\ AboutToStart("build") => StatisticsDone /\ ComponentsDone /\ ExtractDone
                                 /\ ComplexityDone /\ AspectsDone

\* C25 (amended): the stages run one after the other in the order statistics,
\* classification, key-method extraction, complexity analysis, aspect
\* identification, recommendations, report assembly: a stage starts in the step in
\* which the stage before it completes, and no stage is entered in any other way.
C25_StagesInCallOrder ==
    [][/\ pc' = "statistics" => pc = "overview"
       /\ pc' = "components" => pc = "statistics" /\ statistics' = Calculate(files)
       /\ pc' = "extract" => pc = "components" /\ key_components' = Identify(files)
       /\ pc' = "describe" => pc \in {"extract", "describe"}
       /\ pc' = "complexity" => pc = "describe" /\ pending = <<>>
       /\ pc' = "aspects" => pc = "complexity"
       /\ pc' = "recommendations" => pc = "aspects"
       /\ pc' = "build" => pc = "recommendations"
       /\ pc' = "save" => pc = "build"]_vars

\* The report is about to be assembled after every stage ran.
C25_Witness ==
    /\ AboutToStart("build")
    /\ Len(key_methods) > 0
    /\ llm_log = <<"overview", "describe", "recommend">>
    /\ complexity_summary # NoComplexityData

\* The step is one of the run going on, not the end of the process
RunGoesOn == pc' \notin {"failed", "interrupted"}

\* C26: the steps of calculate, identify, extract and analyze leave the parsed file
\* list as it was, descriptions of the methods included; the steps of extract and of
\* AspectAnalyzer.identify leave the ComponentMap, the statistics and the complexity
\* summary as they were.
C26_InputsLeftUnchanged ==
    [][RunGoesOn =>
          /\ pc \in {"statistics", "components", "extract", "describe", "complexity"}
                => files' = files
          /\ pc \in {"extract", "describe", "aspects"}
                => /\ key_components' = key_components
                   /\ statistics' = statistics
                   /\ complexity_summary' = complexity_summary]_vars

\* Every stage has returned; extract emitted a summary with a description while the
\* parsed method still has none, and the ComponentMap, the statistics and the
\* complexity summary hold results.
C26_Witness ==
    /\ pc = "recommendations"
    /\ \E k \in 1..Len(key_methods) :
          /\ key_methods[k].description # None
          /\ MethodAt(emitted[k].pos).description = None
    /\ key_components.services # <<>>
    /\ statistics.total_classes > 0
    /\ complexity_summary # NoComplexityData

\* C27: with a narrative service configured, the aspect stage has queried it when
\* identify returns, and the complexity stage has queried it when it had complexity
\* data, whatever the project context is (none, one without a framework, one with a
\* framework).
C27_NarrativeQueriedForEveryContext ==
    (pc = "recommendations" /\ llm_analyzer) =>
        /\ InList("aspects", llm_log)
        /\ complexity_summary # NoComplexityData => InList("interpret", llm_log)

\* C28: when extract has returned, every summary carries as component_type the role
\* the classifier gave the class that contains the summarised method, and that role
\* is controllers or services.
C28_ComponentTypeIsOwnRole ==
    pc = "complexity" =>
        \A i \in 1..Len(key_methods) :
            /\ key_methods[i].component_type \in {"controllers", "services"}
            /\ key_methods[i].component_type = RoleAt(emitted[i].pos)

\* The number of entries of the five lists of the ComponentMap together
TotalEntries ==
    Len(key_components.controllers) + Len(key_components.services)
    + Len(key_components.repositories) + Len(key_components.entities)
    + Len(key_components.configurations)

\* C29: the ComponentMap has exactly the five role keys, and when identify has
\* returned the number of entries of its five lists together is the number of
\* classes that match the predicate of at least one role, which is at most the
\* total_classes of the statistics.
C29_OneEntryPerMatchingClass ==
    /\ DOMAIN key_components
          = {"controllers", "services", "repositories", "entities", "configurations"}
    /\ pc = "extract" =>
          /\ TotalEntries
                = Cardinality({pos \in AllClassPositions :
                                  \E r \in 1..Len(Roles) : RoleMatches(Roles[r], pos)})
          /\ TotalEntries <= statistics.total_classes

\* identify returned one entry for a class that matches two predicates and none for
\* a class that matches no predicate: fewer entries than classes.
C29_Witness ==
    /\ pc = "extract"
    /\ \E pos \in AllClassPositions :
          RoleMatches("repositories", pos) /\ RoleMatches("entities", pos)
    /\ \E pos \in AllClassPositions : \A r \in 1..Len(Roles) : ~RoleMatches(Roles[r], pos)
    /\ TotalEntries = 2
    /\ statistics.total_classes = 3

\* C30: get_file_patterns is read-only and repeatable: LANGUAGE_PATTERNS is what
\* config.py defines, and whatever call returned last (the one for the discovery or
\* the one for the overview), it returned the extensions, the config files and the
\* four fixed patterns of the detected language.
C30_GetFilePatternsReadOnly ==
    /\ LANGUAGE_PATTERNS = ConfigLanguagePatterns
    /\ file_patterns # <<>> =>
          file_patterns
              = ConfigLanguagePatterns[detected_language].extensions
                \o ConfigLanguagePatterns[detected_language].config_files
                \o <<"**/README.md", "**/readme.md", "**/README.rst", "**/LICENSE">>

====
